---- MODULE Spec2Model ----
(***************************************************************************)
(* A verification model of the graph engine (validator/utils/multigraph.py *)
(* : MultiGraph) and of the venue normaliser (validator/utils/             *)
(* venue_parser.py : VenueParser).                                         *)
(*                                                                         *)
(* Weights are Python floats in the source; the model computes them as    *)
(* exact fractions <<numerator, denominator>> in lowest terms, so that     *)
(* sums and comparisons are those of the real numbers the floats stand     *)
(* for.                                                                    *)
(***************************************************************************)
EXTENDS Integers, Sequences, FiniteSets, TLC

VARIABLES
    node,       \* self._node : the nodes in creation order, each with its role tags
    adj,        \* self._adj  : the edges in creation order, each with key and attributes
    inited,     \* whether the base class constructor has run on this object
    disk,       \* the files save/load work on: path -> <<>> (no file) or <<document>>
    last,       \* the most recent call: its name, arguments, outcome and the state before it
    ops,        \* number of calls made so far
    abbreviation_dict,  \* VenueParser.abbreviation_dict : cleaned phrase -> abbreviation
    vcall       \* the most recent VenueParser call: arguments, result, cache before it

gvars == <<node, adj, inited, disk, last, ops>>

vars == <<node, adj, inited, disk, last, ops, abbreviation_dict, vcall>>

-----------------------------------------------------------------------------
(* Bounds of the model *)

MaxOps == 4

\* calls made on one VenueParser
MaxVenueOps == 2

\* letters of an abbreviation candidate
MaxCand == 5

\* weights of a mapping handed to postprocess
MaxWeight == 2

-----------------------------------------------------------------------------
(* Exact arithmetic standing for the float arithmetic of the source *)

RECURSIVE GCD(_, _)
GCD(a, b) == IF b = 0 THEN a ELSE GCD(b, a % b)

\* n / d, d > 0, n >= 0
Frac(n, d) == LET g == GCD(n, d) IN <<n \div g, d \div g>>

FZero == <<0, 1>>

FOne == <<1, 1>>

FAdd(x, y) == Frac(x[1] * y[2] + y[1] * x[2], x[2] * y[2])

FMul(x, y) == Frac(x[1] * y[1], x[2] * y[2])

\* x / y, y # 0
FDiv(x, y) == Frac(x[1] * y[2], x[2] * y[1])

FGe(x, y) == x[1] * y[2] >= y[1] * x[2]

FGt(x, y) == x[1] * y[2] > y[1] * x[2]

\* the value edges(data=R) reports for an edge that has no attribute R
None == <<0, 0>>

\* Python truth value of a weight or of None: None and 0.0 are false
TruthyW(w) == w # None /\ w[1] # 0

\* Python truth value of a node key: the empty string is false
TruthyK(k) == k # ""

-----------------------------------------------------------------------------
(* Sequence helpers *)

Range(s) == {s[i] : i \in DOMAIN s}

RECURSIVE SumSeq(_)
SumSeq(s) == IF s = <<>> THEN 0 ELSE Head(s) + SumSeq(Tail(s))

RECURSIVE FSumSeq(_)
FSumSeq(s) == IF s = <<>> THEN FZero ELSE FAdd(Head(s), FSumSeq(Tail(s)))

RECURSIVE Flatten(_)
Flatten(ss) == IF ss = <<>> THEN <<>> ELSE Head(ss) \o Flatten(Tail(ss))

-----------------------------------------------------------------------------
(* The graph store *)

Snap == [node |-> node, adj |-> adj, inited |-> inited]

NoAttrs == [r \in {} |-> None]

SetAttr(attrs, r, w) == [x \in DOMAIN attrs \cup {r} |-> IF x = r THEN w ELSE attrs[x]]

\* dd.get(R, None)
GetAttr(attrs, r) == IF r \in DOMAIN attrs THEN attrs[r] ELSE None

NodeIds(nd) == {nd[i].id : i \in DOMAIN nd}

\* self.nodes[k] : the attribute dict of node k, as the set of its role tags
NodeAttrs(nd, k) == nd[CHOOSE i \in DOMAIN nd : nd[i].id = k].attrs

\* add_nodes_from(ks): a key not yet in the graph becomes a new node without attributes
RECURSIVE AddNodesFrom(_, _)
AddNodesFrom(nd, ks) ==
    IF ks = <<>> THEN nd
    ELSE AddNodesFrom(IF Head(ks) \in NodeIds(nd) THEN nd
                      ELSE Append(nd, [id |-> Head(ks), attrs |-> {}]),
                      Tail(ks))

\* a tagging that replaces the tags of a node by the new one
TagNodesReplacing(nd, ks, role) ==
    [i \in DOMAIN nd |-> IF nd[i].id \in Range(ks)
                         THEN [nd[i] EXCEPT !.attrs = {role}]
                         ELSE nd[i]]

\* for node in ks: self.nodes[node][role] = True
TagNodes(nd, ks, role) ==
    [i \in DOMAIN nd |-> IF nd[i].id \in Range(ks)
                         THEN [nd[i] EXCEPT !.attrs = @ \cup {role}]
                         ELSE nd[i]]

\* MultiGraph.new_edge_key: the number of parallel edges u->v, raised while in use
NewEdgeKey(a, u, v) ==
    LET ks == {a[i].key : i \in {j \in DOMAIN a : a[j].u = u /\ a[j].v = v}}
        n == Cardinality(ks)
    IN CHOOSE k \in n..(2 * n) : k \notin ks /\ \A j \in n..(k - 1) : j \in ks

\* add_edge(u, v, **attrs)
AddEdge(a, u, v, attrs) ==
    Append(a, [u |-> u, v |-> v, key |-> NewEdgeKey(a, u, v), attrs |-> attrs])

RECURSIVE AddEdgesFrom(_, _)
AddEdgesFrom(a, es) ==
    IF es = <<>> THEN a
    ELSE AddEdgesFrom(AddEdge(a, Head(es).u, Head(es).v, Head(es).attrs), Tail(es))

-----------------------------------------------------------------------------
(* add_entities *)

\* sources = [k for k in relationships.keys() if k]
Sources(relationships) ==
    SelectSeq([i \in DOMAIN relationships |-> relationships[i].k], TruthyK)

\* the targets of the inner mappings of the non-empty source keys only
TargetsOfNamedSources(relationships) ==
    SelectSeq(Flatten([i \in DOMAIN relationships |->
                 IF TruthyK(relationships[i].k)
                 THEN [j \in DOMAIN relationships[i].v |-> relationships[i].v[j].t]
                 ELSE <<>>]), TruthyK)

\* targets = [k for d in relationships.values() for k, _ in d.items() if k]
Targets(relationships) ==
    SelectSeq(Flatten([i \in DOMAIN relationships |->
                 [j \in DOMAIN relationships[i].v |-> relationships[i].v[j].t]]), TruthyK)

\* sum(list(v.values()))
Total(v) == SumSeq([j \in DOMAIN v |-> v[j].c])

\* mutant: the cutoff compared with the normalized weight v[t] / sum(v.values())
IncludedByWeight(k, it, v, cutoff) ==
    it.c >= cutoff * SumSeq([j \in DOMAIN v |-> v[j].c]) /\ TruthyK(k) /\ TruthyK(it.t)

\* the inclusion test of the comprehension: if v[t] >= cutoff if k if t
Included(k, it, v, cutoff) == it.c >= cutoff /\ TruthyK(k) /\ TruthyK(it.t)

\* the items of one source that pass the inclusion test, in the mapping's order
Passing(k, v, cutoff) ==
    LET Test(it) == Included(k, it, v, cutoff) IN SelectSeq(v, Test)

\* mutant: the raw count stored as the weight, the normalization left out
EdgeListRaw(k, v, relationship_type, cutoff) ==
    LET p == Passing(k, v, cutoff)
    IN [j \in DOMAIN p |-> [u |-> k, v |-> p[j].t,
                            attrs |-> SetAttr(NoAttrs, relationship_type,
                                              Frac(p[j].c, 1))]]

\* the edge list built for one source: (k, t, {relationship_type: v[t] / sum(v.values())})
EdgeList(k, v, relationship_type, cutoff) ==
    LET p == Passing(k, v, cutoff)
    IN [j \in DOMAIN p |-> [u |-> k, v |-> p[j].t,
                            attrs |-> SetAttr(NoAttrs, relationship_type,
                                              Frac(p[j].c, Total(v)))]]

\* the division v[t] / sum(...) is evaluated for an item that passed, with sum = 0
DivByZero(k, v, cutoff) == Passing(k, v, cutoff) # <<>> /\ Total(v) = 0

\* for (k, v) in relationships.items(): self.add_edges_from([...]), stopping at the
\* first source whose edge list raises ZeroDivisionError
RECURSIVE AddAllEdges(_, _, _, _)
AddAllEdges(a, relationships, relationship_type, cutoff) ==
    IF relationships = <<>> THEN [adj |-> a, err |-> "none"]
    ELSE LET k == Head(relationships).k
             v == Head(relationships).v
         IN IF DivByZero(k, v, cutoff) THEN [adj |-> a, err |-> "ZeroDivisionError"]
            ELSE AddAllEdges(AddEdgesFrom(a, EdgeList(k, v, relationship_type, cutoff)),
                             Tail(relationships), relationship_type, cutoff)

\* the whole of add_entities on a store s; a store whose base constructor never ran
\* has no node or adjacency table and the first add_nodes_from fails
add_entities(s, from_entities, to_entities, relationship_type, relationships, cutoff) ==
    IF ~s.inited THEN [node |-> s.node, adj |-> s.adj, err |-> "Uninitialized"]
    ELSE LET sources == Sources(relationships)
             targets == Targets(relationships)
             n1 == AddNodesFrom(AddNodesFrom(s.node, sources), targets)
             n2 == TagNodes(TagNodes(n1, sources, from_entities), targets, to_entities)
             r == AddAllEdges(s.adj, relationships, relationship_type, cutoff)
         IN [node |-> n2, adj |-> r.adj, err |-> r.err]

-----------------------------------------------------------------------------
(* infer_layer *)

EdgesFrom(a, u) == LET From(e) == e.u = u IN SelectSeq(a, From)

\* the distinct neighbours of a list of edges, in order of first appearance
RECURSIVE Nbrs(_, _)
Nbrs(es, seen) ==
    IF es = <<>> THEN <<>>
    ELSE IF Head(es).v \in seen THEN Nbrs(Tail(es), seen)
         ELSE <<Head(es).v>> \o Nbrs(Tail(es), seen \cup {Head(es).v})

\* self.edges(nbunch=u): neighbour by neighbour in the order the neighbours were
\* first linked, and for one neighbour key by key in creation order
OutEdges(a, u) ==
    LET es == EdgesFrom(a, u)
        ns == Nbrs(es, {})
        To(n) == LET T(e) == e.v = n IN SelectSeq(es, T)
    IN Flatten([i \in DOMAIN ns |-> To(ns[i])])

\* list(self.edges(data=r, nbunch=u)) as pairs (neighbour, weight or None)
EdgeData(a, u, r) ==
    LET es == OutEdges(a, u)
    IN [i \in DOMAIN es |-> [v |-> es[i].v, w |-> GetAttr(es[i].attrs, r)]]

\* existing_assignments: the outgoing edges whose R2 value is true
ExistingAssignments(s, entity, r2) ==
    LET Has(f) == TruthyW(f.w) IN SelectSeq(EdgeData(s.adj, entity, r2), Has)

\* self.nodes[n][role] raises KeyError when the node never got that role tag
TagMissing(s, fields, role) ==
    \E i \in DOMAIN fields : TruthyW(fields[i].w) /\ role \notin NodeAttrs(s.node, fields[i].v)

\* [f for f in fields if f.w if self.nodes[f.v][role] if f.w >= flt if f.v]
Qualifying(s, fields, role, flt) ==
    LET Q(f) == TruthyW(f.w) /\ role \in NodeAttrs(s.node, f.v) /\ FGe(f.w, flt) /\ TruthyK(f.v)
    IN SelectSeq(fields, Q)

\* mutant: the score assigned, not accumulated
AggAssign(agg, c, x) ==
    IF \E i \in DOMAIN agg : agg[i].c = c
    THEN [i \in DOMAIN agg |-> IF agg[i].c = c THEN [agg[i] EXCEPT !.score = x] ELSE agg[i]]
    ELSE Append(agg, [c |-> c, score |-> x])

\* aggregate_dict[fieldname] += x, or = x on KeyError; a dict keeps insertion order
AggAdd(agg, c, x) ==
    IF \E i \in DOMAIN agg : agg[i].c = c
    THEN [i \in DOMAIN agg |-> IF agg[i].c = c
                                THEN [agg[i] EXCEPT !.score = FAdd(@, x)] ELSE agg[i]]
    ELSE Append(agg, [c |-> c, score |-> x])

\* the inner loop over fos for one neighbour: curr_weight = field[1] / total_weights
RECURSIVE AggFos(_, _, _, _)
AggFos(agg, fos, prev_weight, total_weights) ==
    IF fos = <<>> THEN agg
    ELSE AggFos(AggAdd(agg, Head(fos).v,
                       FMul(prev_weight, FDiv(Head(fos).w, total_weights))),
                Tail(fos), prev_weight, total_weights)

\* the loop over neighbors; err is set when a target of a neighbour lacks the role
RECURSIVE AggNeighbors(_, _, _, _, _, _)
AggNeighbors(s, agg, neighbors, r2, roleC, f2) ==
    IF neighbors = <<>> THEN [agg |-> agg, err |-> FALSE]
    ELSE LET edgelist_fos == EdgeData(s.adj, Head(neighbors).v, r2)
         IN IF TagMissing(s, edgelist_fos, roleC) THEN [agg |-> agg, err |-> TRUE]
            ELSE LET fos == Qualifying(s, edgelist_fos, roleC, f2)
                     total_weights == FSumSeq([i \in DOMAIN fos |-> fos[i].w])
                 IN AggNeighbors(s, AggFos(agg, fos, Head(neighbors).w, total_weights),
                                 Tail(neighbors), r2, roleC, f2)

\* mutant: an unstable sort, x put in front of the items of equal score
RECURSIVE InsertDescUnstable(_, _)
InsertDescUnstable(sorted, x) ==
    IF sorted = <<>> THEN <<x>>
    ELSE IF FGt(Head(sorted).score, x.score)
         THEN <<Head(sorted)>> \o InsertDescUnstable(Tail(sorted), x)
         ELSE <<x>> \o sorted

\* where sorted(..., reverse=True) puts x: behind every item whose score is not smaller
RECURSIVE InsertDesc(_, _)
InsertDesc(sorted, x) ==
    IF sorted = <<>> THEN <<x>>
    ELSE IF FGe(Head(sorted).score, x.score) THEN <<Head(sorted)>> \o InsertDesc(Tail(sorted), x)
         ELSE <<x>> \o sorted

\* sorted(aggregate_dict.items(), key=lambda kv: kv[1], reverse=True): stable
RECURSIVE SortedDesc(_, _)
SortedDesc(items, acc) ==
    IF items = <<>> THEN acc ELSE SortedDesc(Tail(items), InsertDesc(acc, Head(items)))

\* candidates[:max_links]
Slice(candidates, max_links) ==
    SubSeq(candidates, 1, IF max_links < Len(candidates) THEN max_links ELSE Len(candidates))

\* the body of the loop for one starting entity:
\* "skip" (continue), "error" (KeyError) or "ok" with new_edges[entity]
InferEntity(s, entity, entity_chain, relationship_chain, overwrite, max_links, filters) ==
    IF ~overwrite /\ ExistingAssignments(s, entity, relationship_chain[2]) # <<>>
    THEN [kind |-> "skip", edges |-> <<>>]
    ELSE LET edgelist_neighbors == EdgeData(s.adj, entity, relationship_chain[1])
         IN IF TagMissing(s, edgelist_neighbors, entity_chain[2])
            THEN [kind |-> "error", edges |-> <<>>]
            ELSE LET neighbors == Qualifying(s, edgelist_neighbors, entity_chain[2], filters[1])
                     r == AggNeighbors(s, <<>>, neighbors, relationship_chain[2],
                                       entity_chain[3], filters[2])
                 IN IF r.err THEN [kind |-> "error", edges |-> <<>>]
                    ELSE [kind |-> "ok",
                          edges |-> Slice(SortedDesc(r.agg, <<>>), max_links)]

\* starting_entities: the nodes tagged entity_chain[0], in creation order
StartingEntities(s, roleA) ==
    LET ids == [i \in DOMAIN s.node |-> s.node[i].id]
        IsA(k) == roleA \in NodeAttrs(s.node, k) /\ TruthyK(k)
    IN SelectSeq(ids, IsA)

\* new_edges: one entry per entity that was not skipped, in processing order
NewEdges(s, entity_chain, relationship_chain, overwrite, max_links, filters) ==
    LET se == StartingEntities(s, entity_chain[1])
        res == [i \in DOMAIN se |->
                  [entity |-> se[i],
                   r |-> InferEntity(s, se[i], entity_chain, relationship_chain,
                                     overwrite, max_links, filters)]]
        Kept(x) == x.r.kind = "ok"
    IN [err |-> \E i \in DOMAIN res : res[i].r.kind = "error",
        new_edges |-> SelectSeq(res, Kept)]

\* self.edges[u, v, 0][r] = w
SetEdgeAttr0(a, u, v, r, w) ==
    [i \in DOMAIN a |-> IF a[i].u = u /\ a[i].v = v /\ a[i].key = 0
                         THEN [a[i] EXCEPT !.attrs = SetAttr(@, r, w)] ELSE a[i]]

\* for edge in edges: self.add_edge(entity, edge[0]); self.edges[entity, edge[0], 0][rel] = edge[1]
RECURSIVE StoreEdges(_, _, _, _)
StoreEdges(a, entity, edges, rel) ==
    IF edges = <<>> THEN a
    ELSE StoreEdges(SetEdgeAttr0(AddEdge(a, entity, Head(edges).c, NoAttrs),
                                 entity, Head(edges).c, rel, Head(edges).score),
                    entity, Tail(edges), rel)

\* for entity, edges in new_edges.items(): ...
RECURSIVE StoreAll(_, _, _)
StoreAll(a, new_edges, rel) ==
    IF new_edges = <<>> THEN a
    ELSE StoreAll(StoreEdges(a, Head(new_edges).entity, Head(new_edges).r.edges, rel),
                  Tail(new_edges), rel)

\* mutant: the name "default" written as it is
RelNameAsGiven(new_relationship, relationship_chain) == new_relationship

\* if new_relationship == "default": new_relationship = relationship_chain[1]
RelName(new_relationship, relationship_chain) ==
    IF new_relationship = "default" THEN relationship_chain[2] ELSE new_relationship

\* the loop of the mutant below: the edges of an entity stored before the next
\* entity's candidates are computed
RECURSIVE EagerLoop(_, _, _, _, _, _, _, _)
EagerLoop(s, se, entity_chain, relationship_chain, overwrite, max_links, filters, rel) ==
    IF se = <<>> THEN [node |-> s.node, adj |-> s.adj, err |-> "none"]
    ELSE LET r == InferEntity(s, Head(se), entity_chain, relationship_chain,
                              overwrite, max_links, filters)
         IN IF r.kind = "error" THEN [node |-> s.node, adj |-> s.adj, err |-> "KeyError"]
            ELSE EagerLoop([s EXCEPT !.adj = StoreEdges(s.adj, Head(se), r.edges, rel)],
                           Tail(se), entity_chain, relationship_chain, overwrite,
                           max_links, filters, rel)

\* mutant: one pass, candidates computed from the graph as changed so far
infer_layerEager(s, entity_chain, relationship_chain, overwrite, max_links, filters, new_relationship) ==
    IF ~s.inited THEN [node |-> s.node, adj |-> s.adj, err |-> "Uninitialized"]
    ELSE EagerLoop(s, StartingEntities(s, entity_chain[1]), entity_chain, relationship_chain,
                   overwrite, max_links, filters, RelName(new_relationship, relationship_chain))

\* the whole of infer_layer on a store s
infer_layer(s, entity_chain, relationship_chain, overwrite, max_links, filters, new_relationship) ==
    IF ~s.inited THEN [node |-> s.node, adj |-> s.adj, err |-> "Uninitialized"]
    ELSE LET ne == NewEdges(s, entity_chain, relationship_chain, overwrite, max_links, filters)
         IN IF ne.err THEN [node |-> s.node, adj |-> s.adj, err |-> "KeyError"]
            ELSE [node |-> s.node,
                  adj |-> StoreAll(s.adj, ne.new_edges,
                                   RelName(new_relationship, relationship_chain)),
                  err |-> "none"]

-----------------------------------------------------------------------------
(* save / load : the persisted graph document *)

\* one entry of data["nodes"]: the node's attributes and its id in one JSON object
NodeObject(n) == [x \in n.attrs \cup {"id"} |-> IF x = "id" THEN <<n.id>> ELSE <<TRUE>>]

\* one entry of data["links"]: the edge's attributes with source, target and key
LinkObject(e) ==
    [x \in DOMAIN e.attrs \cup {"source", "target", "key"} |->
        CASE x = "source" -> <<e.u>>
          [] x = "target" -> <<e.v>>
          [] x = "key" -> <<e.key>>
          [] OTHER -> e.attrs[x]]

\* G.edges(keys=True, data=True): node by node in creation order
AllEdges(nd, a) == Flatten([i \in DOMAIN nd |-> OutEdges(a, nd[i].id)])

\* nx.node_link_data(self), written by json.dump and read back by json.load
node_link_data(s) ==
    [nodes |-> [i \in DOMAIN s.node |-> NodeObject(s.node[i])],
     links |-> LET es == AllEdges(s.node, s.adj) IN [i \in DOMAIN es |-> LinkObject(es[i])]]

\* node_link_graph: a node from its object, the id taken out of the attributes
ObjectNode(d) == [id |-> d["id"][1], attrs |-> DOMAIN d \ {"id"}]

\* mutant: the key of the link ignored
ObjectEdgeNoKey(d) ==
    [u |-> d["source"][1], v |-> d["target"][1], key |-> 0,
     attrs |-> [x \in DOMAIN d \ {"source", "target", "key"} |-> d[x]]]

\* node_link_graph: an edge from its object
ObjectEdge(d) ==
    [u |-> d["source"][1], v |-> d["target"][1], key |-> d["key"][1],
     attrs |-> [x \in DOMAIN d \ {"source", "target", "key"} |-> d[x]]]

\* G = nx.node_link_graph(data); super().__init__(G): the store is rebuilt from G,
\* nodes in document order, edges source by source
node_link_graph(data) ==
    LET nd == [i \in DOMAIN data.nodes |-> ObjectNode(data.nodes[i])]
        es == [i \in DOMAIN data.links |-> ObjectEdge(data.links[i])]
    IN [node |-> nd, adj |-> AllEdges(nd, es), inited |-> TRUE]

EmptyDoc == [nodes |-> <<>>, links |-> <<>>]

\* files that load cannot turn into a graph: text that is not JSON, an object without
\* "links", and a link object without "source"
MalformedDocs ==
    { [text |-> "{"],
      [nodes |-> <<[id |-> <<"x">>]>>],
      [nodes |-> <<[id |-> <<"x">>]>>, links |-> <<[target |-> <<"x">>, key |-> <<0>>]>>] }

\* what json.load and nx.node_link_graph raise on the file content, "none" when the
\* content parses and converts
ParseError(data) ==
    IF "text" \in DOMAIN data THEN "JSONDecodeError"
    ELSE IF \/ {"nodes", "links"} \ DOMAIN data # {}
            \/ \E i \in DOMAIN data.links :
                  {"source", "target"} \ DOMAIN data.links[i] # {}
         THEN "KeyError"
         ELSE "none"

-----------------------------------------------------------------------------
(* The venue normaliser.  A Python string is a sequence of one-character   *)
(* strings.                                                                *)

UpperCs == <<"A", "B", "C", "D", "E", "F", "G", "H", "I", "J", "K", "L", "M", "N", "O", "P", "Q", "R", "S", "T", "U", "V", "W", "X", "Y", "Z">>

LowerCs == <<"a", "b", "c", "d", "e", "f", "g", "h", "i", "j", "k", "l", "m", "n", "o", "p", "q", "r", "s", "t", "u", "v", "w", "x", "y", "z">>

DigitCs == {"0", "1", "2", "3", "4", "5", "6", "7", "8", "9"}

UpperSet == Range(UpperCs)

LowerSet == Range(LowerCs)

IsUpper(c) == c \in UpperSet

IsLower(c) == c \in LowerSet

\* \w
IsWord(c) == IsUpper(c) \/ IsLower(c) \/ c \in DigitCs \/ c = "_"

LowerChar(c) == IF IsUpper(c) THEN LowerCs[CHOOSE i \in DOMAIN UpperCs : UpperCs[i] = c] ELSE c

\* str.lower()
Lower(s) == [i \in DOMAIN s |-> LowerChar(s[i])]

\* str.strip()
RECURSIVE LStrip(_)
LStrip(s) == IF s # <<>> /\ Head(s) = " " THEN LStrip(Tail(s)) ELSE s

RECURSIVE RStrip(_)
RStrip(s) == IF s # <<>> /\ s[Len(s)] = " " THEN RStrip(SubSeq(s, 1, Len(s) - 1)) ELSE s

Strip(s) == RStrip(LStrip(s))

\* re.sub(' +', ' ', s)
RECURSIVE CollapseSpaces(_)
CollapseSpaces(s) ==
    IF Len(s) < 2 THEN s
    ELSE IF s[1] = " " /\ s[2] = " " THEN CollapseSpaces(Tail(s))
         ELSE <<s[1]>> \o CollapseSpaces(Tail(s))

\* the literal w occurs in s at position i
MatchAt(s, i, w) == i + Len(w) - 1 <= Len(s) /\ \A k \in DOMAIN w : s[i + k - 1] = w[k]

\* \b in front of position i (i = Len(s) + 1: at the end of s)
Boundary(s, i) ==
    (i > 1 /\ IsWord(s[i - 1])) # (i <= Len(s) /\ IsWord(s[i]))

\* w in s
Contains(s, w) == \E i \in 1..(Len(s) + 1) : MatchAt(s, i, w)

\* the first alternative of alts that matches s at i (between \b when bounded); 0: none
FirstAlt(s, i, alts, bounded) ==
    LET M(n) == /\ alts[n] # <<>>
                /\ MatchAt(s, i, alts[n])
                /\ bounded => Boundary(s, i + Len(alts[n]))
    IN IF bounded /\ ~Boundary(s, i) THEN 0
       ELSE IF \E n \in DOMAIN alts : M(n)
            THEN CHOOSE n \in DOMAIN alts : M(n) /\ \A m \in 1..(n - 1) : ~M(m)
            ELSE 0

\* re.sub(alt1|alt2|..., '', s) from position i on, the alternatives being literals
RECURSIVE SubAlts(_, _, _, _)
SubAlts(s, i, alts, bounded) ==
    IF i > Len(s) THEN <<>>
    ELSE LET n == FirstAlt(s, i, alts, bounded)
         IN IF n = 0 THEN <<s[i]>> \o SubAlts(s, i + 1, alts, bounded)
            ELSE SubAlts(s, i + Len(alts[n]), alts, bounded)

\* re.sub(r'\([^)]*\)', '', s) from position i on
RECURSIVE StripParens(_, _)
StripParens(s, i) ==
    IF i > Len(s) THEN <<>>
    ELSE IF s[i] = "(" /\ \E j \in (i + 1)..Len(s) : s[j] = ")"
         THEN StripParens(s, 1 + CHOOSE j \in (i + 1)..Len(s) :
                                   s[j] = ")" /\ \A k \in (i + 1)..(j - 1) : s[k] # ")")
         ELSE <<s[i]>> \o StripParens(s, i + 1)

\* re.sub(self.space_between_chars, ' ', s): ([^\w\s\\.,]|_) becomes a space
ReplaceSymbols(s) ==
    [i \in DOMAIN s |->
       IF s[i] = "_" \/ ~(IsWord(s[i]) \/ s[i] \in {" ", "\\", ".", ","}) THEN " " ELSE s[i]]

\* re.sub(r'[^a-z ]+', '', s)
KeepLetters(s) == LET K(c) == IsLower(c) \/ c = " " IN SelectSeq(s, K)

\* re.sub(self.date, ...), re.sub(self.date_fallback, ...) and the ordinal-day pattern:
\* every alternative of the three patterns needs at least one digit, and no venue
\* string of the model holds one
RemoveDates(s) == s

\* self.months_regex on a lowercase string ("May" is spelt with a capital there)
MonthWords ==
 << <<"j", "a", "n", "u", "a", "r", "y">>, <<"j", "a", "n">>, <<"f", "e", "b", "r", "u", "a", "r", "y">>,
    <<"f", "e", "b">>, <<"m", "a", "r", "c", "h">>, <<"m", "a", "r">>,
    <<"a", "p", "r", "i", "l">>, <<"a", "p", "r">>, <<"j", "u", "n", "e">>,
    <<"j", "u", "n">>, <<"j", "u", "l", "y">>, <<"j", "u", "l">>,
    <<"a", "u", "g", "u", "s", "t">>, <<"a", "u", "g">>, <<"s", "e", "p", "t", "e", "m", "b", "e", "r">>,
    <<"s", "e", "p", "t">>, <<"s", "e", "p", "e", "m", "b", "e", "r">>, <<"s", "e", "p">>,
    <<"o", "c", "t", "o", "b", "e", "r">>, <<"o", "c", "t">>, <<"n", "o", "v", "e", "m", "b", "e", "r">>,
    <<"n", "o", "v">>, <<"d", "e", "c", "e", "m", "b", "e", "r">>, <<"d", "e", "c">> >>

\* self.word_ordinals
WordOrdinals ==
 << <<"f", "i", "r", "s", "t">>, <<"s", "e", "c", "o", "n", "d">>, <<"t", "h", "i", "r", "d">>,
    <<"f", "o", "u", "r", "t", "h">>, <<"f", "i", "f", "t", "h">>, <<"s", "i", "x", "t", "h">>,
    <<"s", "e", "v", "e", "n", "t", "h">>, <<"e", "i", "g", "h", "t", "h">>, <<"n", "i", "n", "t", "h">>,
    <<"t", "e", "n", "t", "h">>, <<"e", "l", "e", "v", "e", "n", "t", "h">>, <<"t", "w", "e", "l", "f", "t", "h">>,
    <<"t", "h", "i", "r", "t", "e", "e", "n", "t", "h">>, <<"f", "o", "u", "r", "t", "e", "e", "n", "t", "h">>, <<"f", "i", "f", "t", "e", "e", "n", "t", "h">>,
    <<"s", "i", "x", "t", "e", "e", "n", "t", "h">>, <<"s", "e", "v", "e", "n", "t", "e", "e", "n", "t", "h">>, <<"e", "i", "g", "h", "t", "e", "e", "n", "t", "h">>,
    <<"n", "i", "n", "e", "t", "e", "e", "n", "t", "h">>, <<"t", "w", "e", "n", "t", "i", "e", "t", "h">> >>

\* self.blacklist_words
BlacklistWords ==
 << <<"d", "a", "y">>, <<"i", "n", "v", "i", "t", "e", "d", " ", "t", "a", "l", "k", "s">>,
    <<"o", "r", "a", "l", " ", "s", "e", "s", "s", "i", "o", "n">>, <<"s", "p", "e", "e", "c", "h", " ", "g", "i", "v", "e", "n">>,
    <<"p", "o", "s", "t", "e", "r", "s">>, <<"v", "o", "l", "u", "m", "e">>,
    <<"i", "s", "s", "u", "e">> >>

\* self.days_abbrev
DaysAbbrev ==
  { <<"m", "o", "n">>, <<"t", "u", "e">>, <<"t", "h", "u">>, <<"w", "e", "d">>,
    <<"f", "r", "i">>, <<"s", "a", "t">>, <<"s", "u", "n">> }

\* the cleaned phrase of preprocess (lines 148-166)
Clean(string) ==
    LET c1 == StripParens(string, 1)
        c2 == Strip(Lower(ReplaceSymbols(c1)))
        c3 == RemoveDates(c2)
        c4 == Strip(KeepLetters(c3))
        c5 == SubAlts(c4, 1, MonthWords, TRUE)
        c6 == SubAlts(c5, 1, WordOrdinals, FALSE)
        c7 == SubAlts(c6, 1, BlacklistWords, FALSE)
    IN Strip(CollapseSpaces(c7))

\* a result that is None, and one that is a string
NoneStr == [none |-> TRUE, s |-> <<>>]

Str(s) == [none |-> FALSE, s |-> s]

\* re.search(r'(?:[\-]\s+)([A-Z]+)\b', string): the positions i of a hyphen followed by
\* white space and a run of capitals that ends at a word boundary
HyphenCapAt(s, i) ==
    /\ s[i] = "-"
    /\ \E j \in (i + 2)..Len(s) :
         /\ \A k \in (i + 1)..(j - 1) : s[k] = " "
         /\ IsUpper(s[j])
         /\ \E e \in j..Len(s) :
              /\ \A k \in j..e : IsUpper(s[k])
              /\ Boundary(s, e + 1)

HasHyphenCap(s) == \E i \in DOMAIN s : HyphenCapAt(s, i)

\* group(1) of the leftmost match
HyphenCap(s) ==
    LET i == CHOOSE i \in DOMAIN s : HyphenCapAt(s, i) /\ \A k \in 1..(i - 1) : ~HyphenCapAt(s, k)
        j == CHOOSE j \in (i + 2)..Len(s) : (\A k \in (i + 1)..(j - 1) : s[k] = " ") /\ IsUpper(s[j])
        e == CHOOSE e \in j..Len(s) : (\A k \in j..e : IsUpper(s[k])) /\ Boundary(s, e + 1)
    IN SubSeq(s, j, e)

\* re.search(r'\((.*?)\)', string) finds a match
HasParen(s) == \E i, j \in DOMAIN s : i < j /\ s[i] = "(" /\ s[j] = ")"

\* group(1): from the first "(" that has a ")" behind it to the first such ")"
ParenContent(s) ==
    LET i == CHOOSE i \in DOMAIN s :
               /\ s[i] = "(" /\ \E j \in (i + 1)..Len(s) : s[j] = ")"
               /\ \A k \in 1..(i - 1) : ~(s[k] = "(" /\ \E j \in (k + 1)..Len(s) : s[j] = ")")
        j == CHOOSE j \in (i + 1)..Len(s) : s[j] = ")" /\ \A k \in (i + 1)..(j - 1) : s[k] # ")"
    IN SubSeq(s, i + 1, j - 1)

\* cleaned_string.split(' ')
RECURSIVE Split(_, _)
Split(s, cur) ==
    IF s = <<>> THEN <<cur>>
    ELSE IF Head(s) = " " THEN <<cur>> \o Split(Tail(s), <<>>)
         ELSE Split(Tail(s), Append(cur, Head(s)))

\* firstletters = [s[0] for s in cleaned_string.split(' ')], or [cleaned_string[0]]
\* when a word is empty (IndexError)
FirstLetters(cleaned_string) ==
    LET ws == Split(cleaned_string, <<>>)
    IN IF \E i \in DOMAIN ws : ws[i] = <<>> THEN <<cleaned_string[1]>>
       ELSE [i \in DOMAIN ws |-> ws[i][1]]

\* mutant: the matched initial stays in the pool
DelFirstKeep(firstletters, letter) == firstletters

\* del firstletters[firstletters.index(letter)]
DelFirst(firstletters, letter) ==
    LET index == CHOOSE i \in DOMAIN firstletters :
                    firstletters[i] = letter /\ \A k \in 1..(i - 1) : firstletters[k] # letter
    IN SubSeq(firstletters, 1, index - 1) \o SubSeq(firstletters, index + 1, Len(firstletters))

\* a counter that an in-word match leaves as it is
AfterInWordKeep(mismatch) == mismatch

\* what the else branch of the in-word test does to the counter: mismatch -= 1
AfterInWord(mismatch) == mismatch - 1

\* the initials scan (lines 114-130) from letter i on: TRUE when the loop runs to its
\* end, FALSE when it returns None
RECURSIVE Scan(_, _, _, _, _, _)
Scan(abbrev, i, firstletters, prev, mismatch, cleaned_string) ==
    IF i > Len(abbrev) THEN TRUE
    ELSE LET letter == abbrev[i]
         IN IF \E k \in DOMAIN firstletters : firstletters[k] = letter
            THEN Scan(abbrev, i + 1, DelFirst(firstletters, letter), letter, mismatch,
                      cleaned_string)
            ELSE IF ~Contains(cleaned_string, <<prev, letter>>)
                 THEN IF mismatch = 1 THEN FALSE
                      ELSE Scan(abbrev, i + 1, firstletters, letter, mismatch + 1,
                                cleaned_string)
                 ELSE Scan(abbrev, i + 1, firstletters, letter, AfterInWord(mismatch),
                           cleaned_string)

\* abbrev.lower(), non-letters removed, stripped, spaces collapsed (lines 105-107)
NormalizeAbbrev(abbrev) == CollapseSpaces(Strip(KeepLetters(Lower(abbrev))))

\* lines 103-130, once the candidate and the phrase to scan are known
Validate(abbrev, cleaned_string) ==
    IF Len(abbrev) < 3 THEN NoneStr
    ELSE LET a == NormalizeAbbrev(abbrev)
         IN IF Len(a) < 3 THEN NoneStr
            ELSE IF Scan(a, 1, FirstLetters(cleaned_string), "X", 0, cleaned_string)
                 THEN Str(a) ELSE NoneStr

\* re.sub('\\b' + re.escape(abbrev).lower() + '\\b', '', cleaned_string), spaces
\* collapsed and stripped (lines 90-92)
WithoutAbbrev(abbrev, cleaned_string) ==
    Strip(CollapseSpaces(SubAlts(cleaned_string, 1, <<Lower(abbrev)>>, TRUE)))

\* mutant: the capital run after a hyphen tried when the group gives no abbreviation
get_abbreviationsHyphenToo(string, cleaned_string) ==
    LET hyphen == IF HasHyphenCap(string) THEN Validate(HyphenCap(string), cleaned_string)
                  ELSE NoneStr
    IN IF ~(Contains(string, <<"(">>) /\ Contains(string, <<")">>)) /\ ~HasHyphenCap(string)
       THEN NoneStr
       ELSE IF HasParen(string)
            THEN LET abbrev == ParenContent(string)
                     rest == WithoutAbbrev(abbrev, cleaned_string)
                     r == IF Len(rest) < 3 THEN NoneStr ELSE Validate(abbrev, rest)
                 IN IF r.none THEN hyphen ELSE r
            ELSE hyphen

get_abbreviations(string, cleaned_string) ==
    IF ~(Contains(string, <<"(">>) /\ Contains(string, <<")">>)) /\ ~HasHyphenCap(string)
    THEN NoneStr
    ELSE IF HasParen(string)
         THEN LET abbrev == ParenContent(string)
                  rest == WithoutAbbrev(abbrev, cleaned_string)
              IN IF Len(rest) < 3 THEN NoneStr ELSE Validate(abbrev, rest)
         ELSE IF HasHyphenCap(string) THEN Validate(HyphenCap(string), cleaned_string)
              ELSE NoneStr

\* a returned pair (token, flag)
Pair(tok, flag) == [tok |-> tok, flag |-> flag]

\* a preprocess whose insertion replaces the cache by the new entry alone
preprocessEvicting(cache, string, get_abbrv) ==
    LET cleaned_string == Clean(string)
    IN IF Len(cleaned_string) < 3 \/ cleaned_string \in DaysAbbrev
       THEN [ret |-> Pair(NoneStr, FALSE), cache |-> cache]
       ELSE IF ~get_abbrv THEN [ret |-> Pair(Str(cleaned_string), FALSE), cache |-> cache]
       ELSE IF cleaned_string \in DOMAIN cache
            THEN [ret |-> Pair(Str(cache[cleaned_string]), TRUE), cache |-> cache]
            ELSE LET abbrev == get_abbreviations(string, cleaned_string)
                 IN IF ~abbrev.none
                    THEN [ret |-> Pair(abbrev, TRUE), cache |-> (cleaned_string :> abbrev.s)]
                    ELSE [ret |-> Pair(Str(cleaned_string), FALSE), cache |-> cache]

\* a preprocess that runs the extraction before it looks into the cache
preprocessExtractFirst(cache, string, get_abbrv) ==
    LET cleaned_string == Clean(string)
    IN IF Len(cleaned_string) < 3 \/ cleaned_string \in DaysAbbrev
       THEN [ret |-> Pair(NoneStr, FALSE), cache |-> cache]
       ELSE IF ~get_abbrv THEN [ret |-> Pair(Str(cleaned_string), FALSE), cache |-> cache]
       ELSE LET abbrev == get_abbreviations(string, cleaned_string)
            IN IF ~abbrev.none
               THEN [ret |-> Pair(abbrev, TRUE),
                     cache |-> IF cleaned_string \in DOMAIN cache THEN cache
                               ELSE (cleaned_string :> abbrev.s) @@ cache]
               ELSE IF cleaned_string \in DOMAIN cache
                    THEN [ret |-> Pair(Str(cache[cleaned_string]), TRUE), cache |-> cache]
                    ELSE [ret |-> Pair(Str(cleaned_string), FALSE), cache |-> cache]

\* a preprocess that caches the cleaned phrase when the extraction fails
preprocessCachingMisses(cache, string, get_abbrv) ==
    LET cleaned_string == Clean(string)
    IN IF Len(cleaned_string) < 3 \/ cleaned_string \in DaysAbbrev
       THEN [ret |-> Pair(NoneStr, FALSE), cache |-> cache]
       ELSE IF ~get_abbrv THEN [ret |-> Pair(Str(cleaned_string), FALSE), cache |-> cache]
       ELSE IF cleaned_string \in DOMAIN cache
            THEN [ret |-> Pair(Str(cache[cleaned_string]), TRUE), cache |-> cache]
            ELSE LET abbrev == get_abbreviations(string, cleaned_string)
                 IN IF ~abbrev.none
                    THEN [ret |-> Pair(abbrev, TRUE),
                          cache |-> (cleaned_string :> abbrev.s) @@ cache]
                    ELSE [ret |-> Pair(Str(cleaned_string), FALSE),
                          cache |-> (cleaned_string :> cleaned_string) @@ cache]

\* preprocess: the pair it returns and the cache it leaves
preprocess(cache, string, get_abbrv) ==
    LET cleaned_string == Clean(string)
    IN IF Len(cleaned_string) < 3 \/ cleaned_string \in DaysAbbrev
       THEN [ret |-> Pair(NoneStr, FALSE), cache |-> cache]
       ELSE IF ~get_abbrv THEN [ret |-> Pair(Str(cleaned_string), FALSE), cache |-> cache]
       ELSE IF cleaned_string \in DOMAIN cache
            THEN [ret |-> Pair(Str(cache[cleaned_string]), TRUE), cache |-> cache]
            ELSE LET abbrev == get_abbreviations(string, cleaned_string)
                 IN IF ~abbrev.none
                    THEN [ret |-> Pair(abbrev, TRUE),
                          cache |-> (cleaned_string :> abbrev.s) @@ cache]
                    ELSE [ret |-> Pair(Str(cleaned_string), FALSE), cache |-> cache]

\* (XC|XL|L?X{0,3})(IX|IV|V?I{0,3}): the Roman numerals below 100, the empty one too
RomanTens ==
    { <<"X", "C">>, <<"X", "L">> }
      \cup { l \o x : l \in {<<>>, <<"L">>},
                      x \in {<<>>, <<"X">>, <<"X", "X">>, <<"X", "X", "X">>} }

RomanUnits ==
    { <<"I", "X">>, <<"I", "V">> }
      \cup { v \o i : v \in {<<>>, <<"V">>},
                      i \in {<<>>, <<"I">>, <<"I", "I">>, <<"I", "I", "I">>} }

IsRoman(w) == \E t \in RomanTens : \E u \in RomanUnits : w = t \o u

\* the end of the run of word characters that starts at i
RECURSIVE WordEnd(_, _)
WordEnd(s, i) == IF i < Len(s) /\ IsWord(s[i + 1]) THEN WordEnd(s, i + 1) ELSE i

\* re.sub(r'\b(XC|XL|L?X{0,3})(IX|IV|V?I{0,3})\b', '', venue) from position i on: a
\* whole word that is a Roman numeral is removed
RECURSIVE RemoveRoman(_, _)
RemoveRoman(s, i) ==
    IF i > Len(s) THEN <<>>
    ELSE IF IsWord(s[i])
         THEN LET e == WordEnd(s, i)
              IN (IF IsRoman(SubSeq(s, i, e)) THEN <<>> ELSE SubSeq(s, i, e))
                   \o RemoveRoman(s, e + 1)
         ELSE <<s[i]>> \o RemoveRoman(s, i + 1)

\* the strings of the blacklist set of preprocess_venue (None apart)
Blacklist ==
  { <<"n", "/", "a">>, <<"n", "a">>, <<"n", "o", "n", "e">>,
    <<>>, <<"n", "u", "l", "l">>, <<"o", "t", "h", "e", "r", "d", "a", "t", "a">>,
    <<"n", "o", "d", "a", "t", "a">>, <<"u", "n", "k", "n", "o", "w", "n">>, <<"a", "u", "t", "h", "o", "r">>,
    <<"c", "r", "o", "s", "s", "r", "e", "f">>, <<"a", "r", "x", "i", "v">>, <<"C", "r", "o", "s", "s", "r", "e", "f">>,
    <<"A", "r", "x", "i", "v">> }

\* `venue in blacklist`
InBlacklist(venue) == venue \in Blacklist

preprocess_venue(cache, venue, get_abbrv) ==
    LET v == IF venue # <<"I", "V">> THEN RemoveRoman(venue, 1) ELSE venue
    IN IF InBlacklist(v) THEN [ret |-> Pair(NoneStr, FALSE), cache |-> cache]
       ELSE preprocess(cache, v, get_abbrv)

\* postprocess: D is the mapping in iteration order, each entry a key and its
\* neighbour -> weight mapping
Entry(k, v) == [k |-> k, v |-> v]

\* D.keys()
Keys(D) == { D[i].k : i \in DOMAIN D }

\* D[k]
ValueOf(D, k) == D[CHOOSE i \in DOMAIN D : D[i].k = k].v

\* D[k] = v: a new key goes to the end
SetValue(D, k, v) ==
    IF k \in Keys(D) THEN [i \in DOMAIN D |-> IF D[i].k = k THEN Entry(k, v) ELSE D[i]]
    ELSE Append(D, Entry(k, v))

\* D as it is after a merge step that leaves the merged key in place
DelKeyKeep(D, k) == D

\* del D[k]
DelKey(D, k) == LET Other(e) == e.k # k IN SelectSeq(D, Other)

\* an inner loop that sets the weight of a neighbour already present instead of adding to it
MergeIntoAssign(target, v) ==
    [n \in DOMAIN target \cup DOMAIN v |-> IF n \in DOMAIN v THEN v[n] ELSE target[n]]

\* the inner loop: D[mapped][neighbor] += weight, or = weight for a new neighbour
MergeInto(target, v) ==
    [n \in DOMAIN target \cup DOMAIN v |->
        IF n \in DOMAIN v
        THEN IF n \in DOMAIN target THEN target[n] + v[n] ELSE v[n]
        ELSE target[n]]

\* one turn of the loop over old.items(): v is the object D[k] still holds, since
\* old is a shallow copy and k is deleted only in its own turn
PostStep(cache, D, k) ==
    IF k \notin DOMAIN cache THEN D
    ELSE LET mapped == cache[k]
             D1 == IF mapped \notin Keys(D) THEN SetValue(D, mapped, <<>>) ELSE D
             v == ValueOf(D1, k)
             D2 == SetValue(D1, mapped, MergeInto(ValueOf(D1, mapped), v))
         IN DelKey(D2, k)

RECURSIVE PostLoop(_, _, _, _)
PostLoop(cache, old, i, D) ==
    IF i > Len(old) THEN D
    ELSE PostLoop(cache, old, i + 1, PostStep(cache, D, old[i]))

postprocess(cache, D) == PostLoop(cache, [i \in DOMAIN D |-> D[i].k], 1, D)

\* line 68: the entry the constructor adds to the pickled mapping
AclPhrase ==
    <<"m", "e", "e", "t", "i", "n", "g", " ",
    "o", "f", " ", "t", "h", "e", " ", "a", "s", "s", "o", "c", "i", "a", "t", "i", "o", "n", " ", "f", "o", "r",
    " ", "c", "o", "m", "p", "u", "t", "a", "t",
    "i", "o", "n", "a", "l", " ", "l", "i", "n", "g", "u", "i", "s", "t", "i", "c", "s">>

\* __init__(abbreviation_dict): the pickled mapping with the acl entry set
Constructed(pickled) == (AclPhrase :> <<"a", "c", "l">>) @@ pickled

-----------------------------------------------------------------------------
(* Inputs *)

It(t, c) == [t |-> t, c |-> c]

En(k, v) == [k |-> k, v |-> v]

Call(f, t, r, rm, cutoff) == [from |-> f, to |-> t, rel |-> r, rm |-> rm, cutoff |-> cutoff]

\* the population calls of the three-layer graph A -R1-> B -R2-> C
AddCalls ==
    { Call("A", "B", "R1", <<En("a", <<It("b1", 1), It("b2", 1)>>)>>, 0),
      Call("A", "B", "R1", <<En("a", <<It("b1", 2), It("b2", 1), It("", 1)>>)>>, 2),
      Call("B", "C", "R2", <<En("b1", <<It("c1", 1), It("c2", 1)>>),
                             En("b2", <<It("c2", 1)>>)>>, 0),
      Call("B", "C", "R2", <<En("b1", <<It("c1", 1)>>), En("b2", <<It("c2", 1)>>)>>, 0),
      Call("B", "C", "R2", <<En("", <<It("c2", 1)>>), En("b1", <<It("c1", 0)>>),
                             En("b2", <<It("c1", 1)>>)>>, 0),
      Call("A", "C", "R2", <<En("a", <<It("c1", 0), It("", 1)>>)>>, 0),
      Call("A", "C", "R2", <<En("a", <<It("c1", 1)>>)>>, 0),
      Call("A", "C", "R3", <<En("a", <<It("c1", 1)>>)>>, 0),
      Call("A", "C", "R1", <<En("a", <<It("c1", 1)>>)>>, 0) }

Infer(ow, ml, flt, nr) ==
    [entity_chain |-> <<"A", "B", "C">>, relationship_chain |-> <<"R1", "R2">>,
     overwrite |-> ow, max_links |-> ml, filters |-> flt, new_relationship |-> nr]

InferCalls ==
    { Infer(FALSE, 2, <<FZero, FZero>>, "default"),
      Infer(FALSE, 1, <<FZero, FZero>>, "default"),
      Infer(TRUE, 2, <<FZero, FZero>>, "default"),
      Infer(TRUE, 1, <<FZero, FZero>>, "R3"),
      Infer(FALSE, 2, <<Frac(1, 2), Frac(1, 2)>>, "R3") }

Paths == {"graph.json"}

-----------------------------------------------------------------------------
(* The store as a state machine *)

NoArgs == [none |-> TRUE]

\* no VenueParser call so far
NoVenueCall ==
    [op |-> "init", string |-> <<>>, cleaned_string |-> <<>>, get_abbrv |-> FALSE,
     ret |-> Pair(NoneStr, FALSE), abbrev |-> NoneStr, pre |-> <<>>, D |-> <<>>, out |-> <<>>]

\* what the next call remembers of the call before it
PrevOf(l) ==
    [op |-> l.op, err |-> l.err,
     path |-> IF l.op \in {"save", "load"} THEN l.args.path ELSE ""]

Called(op, args, err) == [op |-> op, args |-> args, err |-> err, pre |-> Snap, prev |-> PrevOf(last)]

NotCalled ==
    [op |-> "init", args |-> NoArgs, err |-> "none",
     pre |-> [node |-> <<>>, adj |-> <<>>, inited |-> FALSE],
     prev |-> [op |-> "init", err |-> "none", path |-> ""]]

\* __init__(path): load when the path names a file, else nothing at all is set up
Init ==
    /\ disk \in [Paths -> {<<>>, <<EmptyDoc>>}]
    /\ \E path \in Paths :
          /\ inited = (disk[path] # <<>>)
          /\ node = <<>>
          /\ adj = <<>>
    /\ ops = 0
    /\ last = NotCalled
    /\ abbreviation_dict = <<>>
    /\ vcall = NoVenueCall

AddEntitiesCall(c) ==
    /\ LET r == add_entities(Snap, c.from, c.to, c.rel, c.rm, c.cutoff)
       IN /\ node' = r.node
          /\ adj' = r.adj
          /\ last' = Called("add_entities", c, r.err)
    /\ ops' = ops + 1
    /\ UNCHANGED <<inited, disk, abbreviation_dict, vcall>>

AddEntities(c) == ops < MaxOps /\ AddEntitiesCall(c)

InferLayer(c) ==
    /\ ops < MaxOps
    /\ LET r == infer_layer(Snap, c.entity_chain, c.relationship_chain, c.overwrite,
                            c.max_links, c.filters, c.new_relationship)
       IN /\ node' = r.node
          /\ adj' = r.adj
          /\ last' = Called("infer_layer", c, r.err)
    /\ ops' = ops + 1
    /\ UNCHANGED <<inited, disk, abbreviation_dict, vcall>>

\* save(path): node_link_data fails on a store that was never set up, before the
\* file is opened
Save(path) ==
    /\ ops < MaxOps
    /\ disk' = IF inited THEN [disk EXCEPT ![path] = <<node_link_data(Snap)>>] ELSE disk
    /\ last' = Called("save", [path |-> path], IF inited THEN "none" ELSE "Uninitialized")
    /\ ops' = ops + 1
    /\ UNCHANGED <<node, adj, inited, abbreviation_dict, vcall>>

\* mutant: the document is merged into the graph in memory
LoadMerging(path) ==
    /\ ops < MaxOps
    /\ IF disk[path] = <<>>
       THEN /\ UNCHANGED <<node, adj, inited>>
            /\ last' = Called("load", [path |-> path], "FileNotFoundError")
       ELSE LET g == node_link_graph(disk[path][1])
                Kept(n) == n.id \notin NodeIds(g.node)
                Other(e) == e \notin Range(g.adj)
            IN /\ node' = g.node \o SelectSeq(node, Kept)
               /\ adj' = g.adj \o SelectSeq(adj, Other)
               /\ inited' = g.inited
               /\ last' = Called("load", [path |-> path], "none")
    /\ ops' = ops + 1
    /\ UNCHANGED <<disk, abbreviation_dict, vcall>>

\* mutant: the graph in memory is cleared before the document is parsed
LoadClearingFirst(path) ==
    /\ ops < MaxOps
    /\ IF disk[path] = <<>>
       THEN /\ UNCHANGED <<node, adj, inited>>
            /\ last' = Called("load", [path |-> path], "FileNotFoundError")
       ELSE IF ParseError(disk[path][1]) # "none"
       THEN /\ node' = <<>>
            /\ adj' = <<>>
            /\ inited' = TRUE
            /\ last' = Called("load", [path |-> path], ParseError(disk[path][1]))
       ELSE LET g == node_link_graph(disk[path][1])
            IN /\ node' = g.node
               /\ adj' = g.adj
               /\ inited' = g.inited
               /\ last' = Called("load", [path |-> path], "none")
    /\ ops' = ops + 1
    /\ UNCHANGED <<disk, abbreviation_dict, vcall>>

\* load(path): open fails when there is no file, json.load or node_link_graph when
\* the content is malformed; the store is rebuilt only after both succeeded
Load(path) ==
    /\ ops < MaxOps
    /\ IF disk[path] = <<>>
       THEN /\ UNCHANGED <<node, adj, inited>>
            /\ last' = Called("load", [path |-> path], "FileNotFoundError")
       ELSE IF ParseError(disk[path][1]) # "none"
       THEN /\ UNCHANGED <<node, adj, inited>>
            /\ last' = Called("load", [path |-> path], ParseError(disk[path][1]))
       ELSE LET g == node_link_graph(disk[path][1])
            IN /\ node' = g.node
               /\ adj' = g.adj
               /\ inited' = g.inited
               /\ last' = Called("load", [path |-> path], "none")
    /\ ops' = ops + 1
    /\ UNCHANGED <<disk, abbreviation_dict, vcall>>

Next ==
    \/ \E c \in AddCalls : AddEntities(c)
    \/ \E c \in InferCalls : InferLayer(c)
    \/ \E path \in Paths : Save(path)
    \/ \E path \in Paths : Load(path)

Spec == Init /\ [][Next]_vars

-----------------------------------------------------------------------------
(* One add_entities call, over every relation map of a bounded shape *)

MaxCount == 2

\* an inner mapping: two targets and the empty key, each with a count
InnerMaps ==
    { <<It("t1", x), It("t2", y), It("", z)>> : x \in 0..MaxCount, y \in 0..MaxCount,
                                               z \in 0..MaxCount }

\* one source (possibly the empty key), or two
WideMaps ==
    { <<En(k, v)>> : k \in {"a", ""}, v \in InnerMaps }
      \cup { <<En(k, v), En("a2", w)>> : k \in {"a", ""}, v \in InnerMaps, w \in InnerMaps }

WideCalls == { Call("S", "T", "R1", rm, cutoff) : rm \in WideMaps, cutoff \in 0..MaxCount }

\* a graph an earlier run left in graph.json: a -> t1 with R1 weight 1
SeedDoc ==
    node_link_data([node |-> <<[id |-> "a", attrs |-> {"S"}], [id |-> "t1", attrs |-> {"T"}]>>,
                    adj |-> <<[u |-> "a", v |-> "t1", key |-> 0,
                               attrs |-> SetAttr(NoAttrs, "R1", FOne)]>>,
                    inited |-> TRUE])

\* MultiGraph("graph.json") with the file present
InitAdd ==
    /\ \E doc \in {EmptyDoc, SeedDoc} :
          /\ disk = [p \in Paths |-> <<doc>>]
          /\ node = node_link_graph(doc).node
          /\ adj = node_link_graph(doc).adj
    /\ inited = TRUE
    /\ ops = 0
    /\ last = NotCalled
    /\ abbreviation_dict = <<>>
    /\ vcall = NoVenueCall

NextAdd == ops = 0 /\ \E c \in WideCalls : AddEntitiesCall(c)

SpecAdd == InitAdd /\ [][NextAdd]_vars

-----------------------------------------------------------------------------
(* Population and inference on a graph whose nodes carry several roles: a1 *)
(* is a starting entity and a neighbour of the starting entity a2, and has *)
(* an R2 edge to a node d that is not tagged C                             *)

RoleCalls ==
    { Call("A", "B", "R1", <<En("a1", <<It("b", 1)>>)>>, 0),
      Call("A", "B", "R1", <<En("a2", <<It("a1", 1)>>)>>, 0),
      Call("B", "C", "R2", <<En("b", <<It("c", 1)>>)>>, 0),
      Call("A", "D", "R2", <<En("a1", <<It("d", 1)>>)>>, 0) }

RoleInfers ==
    { Infer(FALSE, 2, <<FZero, FZero>>, "default"),
      Infer(TRUE, 2, <<FZero, FZero>>, "default") }

NextRoles ==
    \/ \E c \in RoleCalls : AddEntities(c)
    \/ \E c \in RoleInfers : InferLayer(c)

SpecRoles == InitAdd /\ [][NextRoles]_vars

-----------------------------------------------------------------------------
(* Loading into a store that holds a graph, from a file that was replaced   *)
(* after the store was constructed                                          *)

\* the store was constructed from the seed document; the file now holds a document
\* or malformed content
InitLoad ==
    /\ disk \in [Paths -> {<<d>> : d \in {EmptyDoc, SeedDoc} \cup MalformedDocs}]
    /\ node = node_link_graph(SeedDoc).node
    /\ adj = node_link_graph(SeedDoc).adj
    /\ inited = TRUE
    /\ ops = 0
    /\ last = NotCalled
    /\ abbreviation_dict = <<>>
    /\ vcall = NoVenueCall

NextLoad ==
    \/ \E c \in RoleCalls : AddEntities(c)
    \/ \E path \in Paths : Save(path)
    \/ \E path \in Paths : Load(path)

SpecLoad == InitLoad /\ [][NextLoad]_vars

-----------------------------------------------------------------------------
(* One VenueParser: preprocess_venue, preprocess and postprocess calls *)

Venues ==
    { <<"N", "/", "A">>,
      <<"n", "/", "a">>,
      <<"N", "A">>,
      <<"N", "o", "n", "e">>,
      <<"n", "o", "n", "e">>,
      <<"N", "U", "L", "L">>,
      <<"U", "n", "k", "n", "o", "w", "n">>,
      <<>>,
      <<"C", "r", "o", "s", "s", "r", "e", "f">>,
      <<"C", "R", "O", "S", "S", "R", "E", "F">>,
      <<"A", "r", "x", "i", "v">>,
      <<"a", "u", "t", "h", "o", "r">>,
      <<"I", "V">>,
      <<"X", "I", "V">>,
      <<"M", "o", "n">>,
      <<"F", "i", "r", "s", "t", " ", "d", "a", "y">>,
      <<"C", "o", "n", "f", " ", "o", "n", " ", "A", "I">>,
      <<"C", "o", "n", "f", " ", "o", "n", " ", "A", "I", " ", "(", "C", "A", "I", ")">>,
      <<"C", "o", "n", "f", " ", "o", "n", " ", "A", "I", " ", "(", "U", "A", "I", ")">>,
      <<"C", "o", "n", "f", " ", "o", "n", " ", "A", "I", " ", "(", "X", "Y", "Z", ")">>,
      <<"X", "I", "V", " ", "C", "o", "n", "f", " ", "o", "n", " ", "A", "I", " ", "(", "C", "A", "I", ")">>,
      <<"W", "o", "r", "k", "s", "h", "o", "p", " ", "o", "n", " ", "D", "a", "t", "a", " ", "-", " ", "X", "Y", "Z">>,
      <<"W", "o", "r", "k", "s", "h", "o", "p", " ", "o", "n", " ", "D", "a", "t", "a">>,
      <<"P", "o", "s", "t", "e", "r", "s", " ", "M", "a", "y", " ", "V", "o", "l", "u", "m", "e", " ", "I", "I">> }

\* strings handed to preprocess itself
Strings ==
    { <<"N", "/", "A">>,
      <<"C", "o", "n", "f", " ", "o", "n", " ", "A", "I">>,
      <<"C", "o", "n", "f", " ", "o", "n", " ", "A", "I", " ", "(", "U", "A", "I", ")">>,
      <<"C", "o", "n", "f", " ", "o", "n", " ", "A", "I", " ", "(", "X", "Y", "Z", ")">>,
      <<"W", "o", "r", "k", "s", "h", "o", "p", " ", "o", "n", " ", "D", "a", "t", "a", " ", "-", " ", "X", "Y", "Z">>,
      <<"T", "u", "e">> }

\* what the pickle file held
Pickles == { <<>>, <<"c", "o", "n", "f", " ", "o", "n", " ", "a", "i">> :> <<"c", "a", "i">> }

\* mappings keyed by tokens preprocess returns
VenueMappings ==
    { <<>>,
      <<Entry(<<"c", "o", "n", "f", " ", "o", "n", " ", "a", "i">>, "n1" :> 1), Entry(<<"c", "a", "i">>, "n1" :> 2)>>,
      <<Entry(<<"c", "a", "i">>, "n1" :> 2), Entry(<<"c", "o", "n", "f", " ", "o", "n", " ", "a", "i">>, "n1" :> 1)>>,
      <<Entry(AclPhrase, "n1" :> 1)>> }

VenueCalled(op, string, cleaned_string, get_abbrv, ret, abbrev, D, out) ==
    [op |-> op, string |-> string, cleaned_string |-> cleaned_string, get_abbrv |-> get_abbrv,
     ret |-> ret, abbrev |-> abbrev, pre |-> abbreviation_dict, D |-> D, out |-> out]

\* no graph object in these runs
NoGraph ==
    /\ node = <<>>
    /\ adj = <<>>
    /\ inited = FALSE
    /\ disk = [p \in Paths |-> <<>>]
    /\ last = NotCalled

\* VenueParser(abbreviation_dict)
InitVenue ==
    /\ NoGraph
    /\ \E pickled \in Pickles : abbreviation_dict = Constructed(pickled)
    /\ vcall = NoVenueCall
    /\ ops = 0

PreprocessVenue(venue, get_abbrv) ==
    /\ ops < MaxVenueOps
    /\ LET r == preprocess_venue(abbreviation_dict, venue, get_abbrv)
       IN /\ abbreviation_dict' = r.cache
          /\ vcall' = VenueCalled("preprocess_venue", venue, <<>>, get_abbrv, r.ret, NoneStr,
                                  <<>>, <<>>)
    /\ ops' = ops + 1
    /\ UNCHANGED <<node, adj, inited, disk, last>>

Preprocess(string, get_abbrv) ==
    /\ ops < MaxVenueOps
    /\ LET r == preprocess(abbreviation_dict, string, get_abbrv)
       IN /\ abbreviation_dict' = r.cache
          /\ vcall' = VenueCalled("preprocess", string, Clean(string), get_abbrv, r.ret,
                                  NoneStr, <<>>, <<>>)
    /\ ops' = ops + 1
    /\ UNCHANGED <<node, adj, inited, disk, last>>

PostprocessCall(D) ==
    /\ vcall' = VenueCalled("postprocess", <<>>, <<>>, FALSE, Pair(NoneStr, FALSE), NoneStr,
                            D, postprocess(abbreviation_dict, D))
    /\ ops' = ops + 1
    /\ UNCHANGED <<node, adj, inited, disk, last, abbreviation_dict>>

Postprocess(D) == ops < MaxVenueOps /\ PostprocessCall(D)

NextVenue ==
    \/ \E venue \in Venues : \E get_abbrv \in BOOLEAN : PreprocessVenue(venue, get_abbrv)
    \/ \E string \in Strings : \E get_abbrv \in BOOLEAN : Preprocess(string, get_abbrv)
    \/ \E D \in VenueMappings : Postprocess(D)

SpecVenue == InitVenue /\ [][NextVenue]_vars

-----------------------------------------------------------------------------
(* One get_abbreviations call, as preprocess makes it, over a family of    *)
(* venue strings that carry a candidate                                    *)

CandLetters == {"A", "B", "X"}

\* the candidates: every string of 2..MaxCand letters
Candidates == UNION { [1..n -> CandLetters] : n \in 2..MaxCand }

Phrases == { <<"a", "b", " ", "c", "d">>, <<"a", "b", "c", " ", "a", "b">> }

\* the phrase followed by the candidate in parentheses, or after a hyphen; and
\* strings with a group that is the whole name, a group beside a hyphen, a group that
\* normalises to two letters, and brackets that form no group
CandidateStrings ==
    { p \o <<" ", "(">> \o c \o <<")">> : p \in Phrases, c \in Candidates }
      \cup { p \o <<" ", "-", " ">> \o c : p \in Phrases, c \in Candidates }
      \cup { <<"a", "b", "a", " ", "x", "y", " ", "(", "A", "B", "A", ")">>,
             <<"a", "b", " ", "c", "d", " ", "-", " ", "A", "B", "X", " ", "(", "A", "B", ")">>,
             <<"a", "b", " ", "c", "d", " ", "-", " ", "A", "C", "X", " ", "(", "X", "X", "X", "X", ")">>,
             <<"a", "b", " ", "c", "d", " ", "(", "A", "-", "B", ")">>,
             <<"a", "b", " ", "c", "d", " ", "(", "A", " ", ".", " ", "C", ")">>,
             <<"a", "b", " ", "c", "d", " ", "-", " ", "A", "C", "X", " ", ")", "(">> }

InitAbbrev ==
    /\ NoGraph
    /\ abbreviation_dict = Constructed(<<>>)
    /\ vcall = NoVenueCall
    /\ ops = 0

GetAbbreviations(string, cleaned_string) ==
    /\ vcall' = VenueCalled("get_abbreviations", string, cleaned_string, TRUE,
                            Pair(NoneStr, FALSE), get_abbreviations(string, cleaned_string),
                            <<>>, <<>>)
    /\ ops' = ops + 1
    /\ UNCHANGED <<node, adj, inited, disk, last, abbreviation_dict>>

NextAbbrev == ops = 0 /\ \E string \in CandidateStrings : GetAbbreviations(string, Clean(string))

SpecAbbrev == InitAbbrev /\ [][NextAbbrev]_vars

-----------------------------------------------------------------------------
(* One postprocess call, over every cache on two keys and every mapping on *)
(* three                                                                   *)

PostKeys == { <<"a", "c", "l">>, <<"u", "a", "i">>, <<"k", "d", "d">> }

CachedKeys == { <<"a", "c", "l">>, <<"u", "a", "i">> }

\* each of the two keys is absent from the pickled mapping or maps to one of the three
PostCaches ==
    UNION { { Constructed(f) : f \in [S -> PostKeys] } : S \in SUBSET CachedKeys }

Inners ==
    { <<>>, ("n1" :> 1) @@ ("n2" :> 1) } \cup { "n1" :> w : w \in 1..MaxWeight }

\* the sequences of distinct keys
KeyOrders ==
    { o \in UNION { [1..n -> PostKeys] : n \in 0..3 } :
        \A i, j \in DOMAIN o : i # j => o[i] # o[j] }

PostMappings ==
    UNION { { [i \in DOMAIN o |-> Entry(o[i], vs[i])] : vs \in [DOMAIN o -> Inners] } :
            o \in KeyOrders }

InitPost ==
    /\ NoGraph
    /\ abbreviation_dict \in PostCaches
    /\ vcall = NoVenueCall
    /\ ops = 0

NextPost == ops = 0 /\ \E D \in PostMappings : PostprocessCall(D)

SpecPost == InitPost /\ [][NextPost]_vars

-----------------------------------------------------------------------------
(* Properties of add_entities *)

\* the edges the last call appended, in creation order
NewAdj == SubSeq(adj, Len(last.pre.adj) + 1, Len(adj))

NewFrom(k) == LET F(e) == e.u = k IN SelectSeq(NewAdj, F)

NewTargets(k) == {NewFrom(k)[i].v : i \in DOMAIN NewFrom(k)}

AfterAdd == last.op = "add_entities" /\ last.pre.inited

RawTotal(e) == SumSeq([j \in DOMAIN e.v |-> e.v[j].c])

\* the raw counts of the targets of source e that received an edge
RawIncluded(e) ==
    SumSeq([j \in DOMAIN e.v |-> IF e.v[j].t \in NewTargets(e.k) THEN e.v[j].c ELSE 0])

\* C1: after add_entities, for every non-empty source whose raw counts have a nonzero
\* total, each edge created from that source carries exactly the attribute
\* R = count/total of its target, and the R weights of the edges created from that
\* source sum to (raw counts of the targets that received an edge) / (total of all raw
\* counts of the source's inner mapping, the empty key's count included).
C1_WeightsAreCountOverTotal ==
    AfterAdd =>
      \A i \in DOMAIN last.args.rm :
        LET e == last.args.rm[i]
            es == NewFrom(e.k)
        IN (e.k # "" /\ RawTotal(e) # 0) =>
             /\ \A n \in DOMAIN es :
                  \E j \in DOMAIN e.v :
                     /\ e.v[j].t = es[n].v
                     /\ es[n].attrs = SetAttr(NoAttrs, last.args.rel,
                                              Frac(e.v[j].c, RawTotal(e)))
             /\ \A n, m \in DOMAIN es : es[n].v = es[m].v => n = m
             /\ FSumSeq([n \in DOMAIN es |-> GetAttr(es[n].attrs, last.args.rel)])
                  = Frac(RawIncluded(e), RawTotal(e))

\* C1 witness: a completed call in which a source with nonzero total got an edge for
\* one target while another target with a positive count was left out by the cutoff
C1_Witness ==
    /\ AfterAdd /\ last.err = "none"
    /\ \E i \in DOMAIN last.args.rm :
         LET e == last.args.rm[i]
         IN /\ e.k # "" /\ RawTotal(e) # 0
            /\ NewTargets(e.k) # {}
            /\ \E j \in DOMAIN e.v :
                 e.v[j].t # "" /\ e.v[j].c > 0 /\ e.v[j].t \notin NewTargets(e.k)

\* the first source on which the call fails: a non-empty source with total zero that
\* has a non-empty target passing the cutoff; Len + 1 when there is none
FailsAt(c, i) ==
    LET e == c.rm[i]
    IN /\ e.k # "" /\ RawTotal(e) = 0
       /\ \E j \in DOMAIN e.v : e.v[j].t # "" /\ e.v[j].c >= c.cutoff

FirstFailure(c) ==
    IF \E i \in DOMAIN c.rm : FailsAt(c, i)
    THEN CHOOSE i \in DOMAIN c.rm : FailsAt(c, i) /\ \A j \in 1..(i - 1) : ~FailsAt(c, j)
    ELSE Len(c.rm) + 1

\* C2 as claimed: an edge source->target is created for exactly those non-empty
\* targets of a non-empty source whose normalized weight count/total is >= cutoff.
C2_CutoffOnNormalizedWeight ==
    (AfterAdd /\ last.err = "none") =>
      \A i \in DOMAIN last.args.rm :
        LET e == last.args.rm[i]
        IN (e.k # "" /\ RawTotal(e) # 0) =>
             \A j \in DOMAIN e.v :
               e.v[j].t # "" =>
                 (e.v[j].t \in NewTargets(e.k)
                    <=> FGe(Frac(e.v[j].c, RawTotal(e)), <<last.args.cutoff, 1>>))

\* C2 amended: the cutoff is compared with the raw count. For every non-empty source
\* up to the first one on which the call fails, an edge source->target is created for
\* exactly those non-empty targets whose raw count is >= cutoff; the failing source and
\* the sources after it get no edge; nothing else is created.
C2_CutoffOnRawCount ==
    AfterAdd =>
      /\ \A i \in DOMAIN last.args.rm :
           LET e == last.args.rm[i]
           IN IF e.k # "" /\ i < FirstFailure(last.args)
              THEN \A j \in DOMAIN e.v :
                     e.v[j].t # "" =>
                       (e.v[j].t \in NewTargets(e.k) <=> e.v[j].c >= last.args.cutoff)
              ELSE NewTargets(e.k) = {}
      /\ \A n \in DOMAIN NewAdj :
           \E i \in DOMAIN last.args.rm :
             /\ last.args.rm[i].k = NewAdj[n].u
             /\ \E j \in DOMAIN last.args.rm[i].v : last.args.rm[i].v[j].t = NewAdj[n].v
      /\ (last.err = "none") <=> (FirstFailure(last.args) = Len(last.args.rm) + 1)

\* C2 witness: a completed call that created an edge for a target whose raw count
\* reaches the cutoff while its normalized weight is below the cutoff
C2_Witness ==
    /\ AfterAdd /\ last.err = "none"
    /\ \E i \in DOMAIN last.args.rm :
         LET e == last.args.rm[i]
         IN /\ e.k # "" /\ RawTotal(e) # 0
            /\ \E j \in DOMAIN e.v :
                 /\ e.v[j].t \in NewTargets(e.k)
                 /\ e.v[j].c >= last.args.cutoff
                 /\ ~FGe(Frac(e.v[j].c, RawTotal(e)), <<last.args.cutoff, 1>>)

\* C3: add_entities with cutoff 0 and a non-empty source whose inner mapping is
\* non-empty and holds only zero counts completes without a divide-by-zero failure,
\* creates no edge from that source, tags the source with from_role and its targets
\* with to_role, and the other sources of the call get their edges.
C3_ZeroTotalSourceIsSkipped ==
    (AfterAdd /\ last.args.cutoff = 0) =>
      \A i \in DOMAIN last.args.rm :
        LET e == last.args.rm[i]
        IN (e.k # "" /\ e.v # <<>> /\ \A j \in DOMAIN e.v : e.v[j].c = 0) =>
             /\ last.err = "none"
             /\ NewTargets(e.k) = {}
             /\ last.args.from \in NodeAttrs(node, e.k)
             /\ \A j \in DOMAIN e.v :
                  e.v[j].t # "" => last.args.to \in NodeAttrs(node, e.v[j].t)
             /\ \A m \in DOMAIN last.args.rm :
                  LET o == last.args.rm[m]
                  IN (o.k # "" /\ RawTotal(o) # 0) =>
                       \A j \in DOMAIN o.v : o.v[j].t # "" => o.v[j].t \in NewTargets(o.k)

-----------------------------------------------------------------------------
(* Properties of infer_layer *)

AfterInfer == last.op = "infer_layer" /\ last.pre.inited

\* the attribute name the call writes
WrittenRel ==
    IF last.args.new_relationship = "default" THEN last.args.relationship_chain[2]
    ELSE last.args.new_relationship

RECURSIVE FSumOver(_, _)
FSumOver(S, f) ==
    IF S = {} THEN FZero
    ELSE LET x == CHOOSE x \in S : TRUE IN FAdd(f[x], FSumOver(S \ {x}, f))

\* the edges of graph s leaving u that carry relation r with weight >= flt and lead
\* to a node tagged role
EdgesVia(s, u, r, role, flt) ==
    {i \in DOMAIN s.adj :
        /\ s.adj[i].u = u
        /\ r \in DOMAIN s.adj[i].attrs
        /\ role \in NodeAttrs(s.node, s.adj[i].v)
        /\ FGe(s.adj[i].attrs[r], flt)}

\* T(b): the sum of the R2 weights of b's qualifying edges to C-tagged nodes
QualifyingTotal(s, c, b) ==
    LET J == EdgesVia(s, b, c.relationship_chain[2], c.entity_chain[3], c.filters[2])
    IN FSumOver(J, [j \in J |-> s.adj[j].attrs[c.relationship_chain[2]]])

\* sum over a -R1-> b -R2-> t of w_R1(a, b) * w_R2(b, t) / T(b)
PathScore(s, c, a, t) ==
    LET I == EdgesVia(s, a, c.relationship_chain[1], c.entity_chain[2], c.filters[1])
        P == {p \in I \X DOMAIN s.adj :
                /\ p[2] \in EdgesVia(s, s.adj[p[1]].v, c.relationship_chain[2],
                                     c.entity_chain[3], c.filters[2])
                /\ s.adj[p[2]].v = t
                /\ QualifyingTotal(s, c, s.adj[p[1]].v) # FZero}
    IN FSumOver(P, [p \in P |->
          FMul(s.adj[p[1]].attrs[c.relationship_chain[1]],
               FDiv(s.adj[p[2]].attrs[c.relationship_chain[2]],
                    QualifyingTotal(s, c, s.adj[p[1]].v)))])

\* the edge u -> v with key 0 of the current graph
Edge0(u, v) == adj[CHOOSE i \in DOMAIN adj : adj[i].u = u /\ adj[i].v = v /\ adj[i].key = 0]

\* C4: with overwrite=false, for every A-tagged node that before the call already has
\* an outgoing edge with a present R2 weight to a C-tagged node, infer_layer adds no
\* edge from that node and leaves the attributes of all its outgoing edges unchanged.
C4_ResolvedNodeUntouched ==
    (AfterInfer /\ ~last.args.overwrite) =>
      \A n \in DOMAIN last.pre.node :
        LET a == last.pre.node[n].id
        IN (/\ last.args.entity_chain[1] \in last.pre.node[n].attrs
            /\ \E i \in DOMAIN last.pre.adj :
                 /\ last.pre.adj[i].u = a
                 /\ last.args.relationship_chain[2] \in DOMAIN last.pre.adj[i].attrs
                 /\ last.args.entity_chain[3] \in NodeAttrs(last.pre.node, last.pre.adj[i].v))
           => /\ NewFrom(a) = <<>>
              /\ \A i \in DOMAIN last.pre.adj : last.pre.adj[i].u = a => adj[i] = last.pre.adj[i]

\* C5: for each processed A-node a and each kept C-target c, the weight infer_layer
\* stores for a->c is the sum over the outgoing R1 edges a->b (b tagged B, weight >=
\* filters[0]) of w_R1(a,b) * w_R2(b,c) / T(b), T(b) the sum of the R2 weights of b's
\* edges to C-tagged nodes with weight >= filters[1]; it is stored under the attribute
\* new_relationship, or under R2's name when new_relationship is "default".
C5_StoredScoreIsPathSum ==
    (AfterInfer /\ last.err = "none") =>
      \A n \in DOMAIN NewAdj :
        GetAttr(Edge0(NewAdj[n].u, NewAdj[n].v).attrs, WrittenRel)
          = PathScore(last.pre, last.args, NewAdj[n].u, NewAdj[n].v)

\* C5 witness: a kept target reached through two B-neighbours, one of which has its R2
\* weights renormalized (its qualifying total is not 1)
C5_Witness ==
    /\ AfterInfer /\ last.err = "none"
    /\ \E n \in DOMAIN NewAdj :
         LET a == NewAdj[n].u
             I == EdgesVia(last.pre, a, "R1", "B", last.args.filters[1])
         IN /\ \E i, j \in I :
                 /\ last.pre.adj[i].v # last.pre.adj[j].v
                 /\ \E x, y \in DOMAIN last.pre.adj :
                      /\ x \in EdgesVia(last.pre, last.pre.adj[i].v, "R2", "C", last.args.filters[2])
                      /\ y \in EdgesVia(last.pre, last.pre.adj[j].v, "R2", "C", last.args.filters[2])
                      /\ last.pre.adj[x].v = NewAdj[n].v
                      /\ last.pre.adj[y].v = NewAdj[n].v
            /\ \E i \in I :
                 /\ QualifyingTotal(last.pre, last.args, last.pre.adj[i].v) # FOne
                 /\ QualifyingTotal(last.pre, last.args, last.pre.adj[i].v) # FZero

\* the C-targets of a in order of first discovery: B-neighbour by B-neighbour, and for
\* one neighbour edge by edge
Discovery(s, c, a) ==
    LET nb == Qualifying(s, EdgeData(s.adj, a, c.relationship_chain[1]),
                         c.entity_chain[2], c.filters[1])
        fos == Flatten([i \in DOMAIN nb |->
                  Qualifying(s, EdgeData(s.adj, nb[i].v, c.relationship_chain[2]),
                             c.entity_chain[3], c.filters[2])])
    IN Nbrs(fos, {})

Pos(seq, x) == CHOOSE i \in DOMAIN seq : seq[i] = x

\* a is processed: it is tagged A, and overwrite is set or none of its outgoing edges
\* has a true R2 value
Processed(s, c, a) ==
    /\ c.entity_chain[1] \in NodeAttrs(s.node, a)
    /\ \/ c.overwrite
       \/ \A i \in DOMAIN s.adj :
            s.adj[i].u = a => ~TruthyW(GetAttr(s.adj[i].attrs, c.relationship_chain[2]))

Min(x, y) == IF x < y THEN x ELSE y

\* C6: for every A-node it processes, infer_layer adds at most max_links edges (as many
\* as there are candidates, up to max_links), to the highest-scoring C-targets in
\* descending score order: no C-target left out has a strictly higher score than a kept
\* one, and among targets of equal score the one discovered first is ranked first.
C6_TopLinksInDescendingOrder ==
    (AfterInfer /\ last.err = "none") =>
      \A n \in DOMAIN last.pre.node :
        LET a == last.pre.node[n].id
            es == NewFrom(a)
            disc == Discovery(last.pre, last.args, a)
            Sc(t) == PathScore(last.pre, last.args, a, t)
        IN IF Processed(last.pre, last.args, a)
           THEN /\ Len(es) = Min(last.args.max_links, Len(disc))
                /\ \A i, j \in DOMAIN es : i < j =>
                     /\ es[i].v # es[j].v
                     /\ FGe(Sc(es[i].v), Sc(es[j].v))
                     /\ Sc(es[i].v) = Sc(es[j].v) => Pos(disc, es[i].v) < Pos(disc, es[j].v)
                /\ \A i \in DOMAIN es :
                     /\ es[i].v \in Range(disc)
                     /\ \A t \in NodeIds(last.pre.node) \ NewTargets(a) :
                          /\ FGe(Sc(es[i].v), Sc(t))
                          /\ (Sc(es[i].v) = Sc(t) /\ t \in Range(disc)) =>
                               Pos(disc, es[i].v) < Pos(disc, t)
           ELSE es = <<>>

\* C6 witness: a processed node with more candidates than max_links, where the kept
\* target was discovered after a left-out one
C6_Witness ==
    /\ AfterInfer /\ last.err = "none"
    /\ \E n \in DOMAIN last.pre.node :
         LET a == last.pre.node[n].id
             disc == Discovery(last.pre, last.args, a)
         IN /\ Processed(last.pre, last.args, a)
            /\ Len(disc) > last.args.max_links
            /\ Len(NewFrom(a)) = last.args.max_links
            /\ \E t \in Range(disc) \ NewTargets(a) : Pos(disc, t) < Pos(disc, NewFrom(a)[1].v)

\* C6 witness of the tie-break: two candidates of equal score, one kept
C6_WitnessTie ==
    /\ AfterInfer /\ last.err = "none"
    /\ \E n \in DOMAIN last.pre.node :
         LET a == last.pre.node[n].id
             disc == Discovery(last.pre, last.args, a)
         IN /\ Processed(last.pre, last.args, a)
            /\ Len(NewFrom(a)) = 1
            /\ \E t \in Range(disc) \ NewTargets(a) :
                 PathScore(last.pre, last.args, a, t)
                   = PathScore(last.pre, last.args, a, NewFrom(a)[1].v)

-----------------------------------------------------------------------------
(* Properties of save and load *)

SameGraph(g, h) ==
    /\ NodeIds(g.node) = NodeIds(h.node)
    /\ \A k \in NodeIds(g.node) : NodeAttrs(g.node, k) = NodeAttrs(h.node, k)
    /\ Len(g.adj) = Len(h.adj)
    /\ Range(g.adj) = Range(h.adj)

SavedThenLoaded ==
    /\ last.op = "load" /\ last.err = "none"
    /\ last.prev.op = "save" /\ last.prev.err = "none"
    /\ last.prev.path = last.args.path

\* C7: save(path) followed by load(path) yields a graph with the same node set, the
\* same role tags, the same edges (source, target, parallel-edge key) and the same
\* edge attributes as before save.
C7_SaveLoadRoundTrip == SavedThenLoaded => SameGraph(Snap, last.pre)

\* C7 witness: a round trip of a graph with parallel edges and tagged nodes
C7_Witness ==
    /\ SavedThenLoaded
    /\ \E i \in DOMAIN adj : adj[i].key > 0
    /\ \E i \in DOMAIN node : node[i].attrs # {}

\* the document load(path) has read
Loaded == node_link_graph(disk[last.args.path][1])

\* C17: after load(path) succeeds on a store that already holds nodes and edges, the
\* store holds exactly the nodes, role tags, edges and edge attributes of the loaded
\* document; no node, tag or edge of the state before the call survives.
C17_LoadReplacesAllState ==
    (last.op = "load" /\ last.err = "none") =>
       /\ SameGraph(Snap, Loaded)
       /\ \A i \in DOMAIN last.pre.node :
             LET n == last.pre.node[i]
             IN \/ n.id \notin NodeIds(Loaded.node) /\ n.id \notin NodeIds(node)
                \/ /\ n.id \in NodeIds(Loaded.node)
                   /\ NodeAttrs(node, n.id) = NodeAttrs(Loaded.node, n.id)
       /\ \A e \in Range(last.pre.adj) : e \in Range(adj) => e \in Range(Loaded.adj)

\* C17 witness: a load of a non-empty document into a store that held a tagged node
\* and an edge the document does not have
C17_Witness ==
    /\ last.op = "load" /\ last.err = "none"
    /\ Loaded.node # <<>> /\ Loaded.adj # <<>>
    /\ \E i \in DOMAIN last.pre.node :
          /\ last.pre.node[i].id \notin NodeIds(Loaded.node)
          /\ last.pre.node[i].attrs # {}
    /\ Range(last.pre.adj) \ Range(Loaded.adj) # {}

\* C25: load on a malformed or corrupt document fails with a surfaced error and
\* leaves the graph in memory exactly as it was before the call: the current state
\* is replaced only after the document has been parsed and converted.
C25_FailedLoadLeavesGraph ==
    last.op = "load" =>
      /\ (disk[last.args.path] # <<>> /\ disk[last.args.path][1] \in MalformedDocs)
            => last.err \in {"JSONDecodeError", "KeyError"}
      /\ last.err # "none" => Snap = last.pre

\* C25 witness: a load of malformed content into a store that holds nodes added since
\* construction, and edges
C25_Witness ==
    /\ last.op = "load" /\ last.err \in {"JSONDecodeError", "KeyError"}
    /\ Len(last.pre.node) > 2
    /\ Len(last.pre.adj) > 1

-----------------------------------------------------------------------------
(* Properties of the venue normaliser *)

\* the sentinel names, in lower case
SentinelNames ==
    { <<"n", "/", "a">>,
      <<"n", "a">>,
      <<"n", "o", "n", "e">>,
      <<>>,
      <<"n", "u", "l", "l">>,
      <<"o", "t", "h", "e", "r", "d", "a", "t", "a">>,
      <<"n", "o", "d", "a", "t", "a">>,
      <<"u", "n", "k", "n", "o", "w", "n">>,
      <<"a", "u", "t", "h", "o", "r">>,
      <<"c", "r", "o", "s", "s", "r", "e", "f">>,
      <<"a", "r", "x", "i", "v">> }

\* C8: preprocess_venue returns (None, false) for every venue string that equals a
\* sentinel name when the two are compared without regard to case ("N/A", "None",
\* "NULL", "Unknown" among them).
C8_SentinelsRejectedInAnyCase ==
    (vcall.op = "preprocess_venue" /\ Lower(vcall.string) \in SentinelNames)
        => vcall.ret = Pair(NoneStr, FALSE)

\* the last call was get_abbreviations and its candidate got as far as the initials scan
Scanned ==
    /\ vcall.op = "get_abbreviations"
    /\ IF HasParen(vcall.string)
       THEN /\ Len(WithoutAbbrev(ParenContent(vcall.string), vcall.cleaned_string)) >= 3
            /\ Len(ParenContent(vcall.string)) >= 3
            /\ Len(NormalizeAbbrev(ParenContent(vcall.string))) >= 3
       ELSE /\ HasHyphenCap(vcall.string)
            /\ Len(HyphenCap(vcall.string)) >= 3

\* the candidate the scan reads, and the phrase it reads it against
ScannedCandidate ==
    IF HasParen(vcall.string) THEN NormalizeAbbrev(ParenContent(vcall.string))
    ELSE NormalizeAbbrev(HyphenCap(vcall.string))

ScannedPhrase ==
    IF HasParen(vcall.string) THEN WithoutAbbrev(ParenContent(vcall.string), vcall.cleaned_string)
    ELSE vcall.cleaned_string

\* letter i of the candidate equals a word-initial of the phrase that no earlier
\* letter has consumed: the phrase has more words starting with it than the candidate
\* has earlier occurrences of it
IsInitial(cand, phrase, i) ==
    LET initials == FirstLetters(phrase)
    IN Cardinality({ j \in 1..(i - 1) : cand[j] = cand[i] })
         < Cardinality({ k \in DOMAIN initials : initials[k] = cand[i] })

\* letter i forms with the letter before it ("X" before the first) a two-letter
\* sequence of the phrase
IsInWord(cand, phrase, i) ==
    /\ ~IsInitial(cand, phrase, i)
    /\ \E k \in 1..(Len(phrase) - 1) :
          /\ phrase[k] = (IF i = 1 THEN "X" ELSE cand[i - 1])
          /\ phrase[k + 1] = cand[i]

IsMismatch(cand, phrase, i) == ~IsInitial(cand, phrase, i) /\ ~IsInWord(cand, phrase, i)

Mismatches(cand, phrase) == { i \in DOMAIN cand : IsMismatch(cand, phrase, i) }

InWords(cand, phrase) == { i \in DOMAIN cand : IsInWord(cand, phrase, i) }

\* mismatches less in-word matches among the letters before letter i
CounterBefore(cand, phrase, i) ==
    Cardinality({ j \in Mismatches(cand, phrase) : j < i })
      - Cardinality({ j \in InWords(cand, phrase) : j < i })

\* C9: get_abbreviations returns no abbreviation for every candidate in which two
\* or more letters are mismatches, however many in-word matches lie between them.
C9_TwoMismatchesAreRejected ==
    (Scanned /\ Cardinality(Mismatches(ScannedCandidate, ScannedPhrase)) >= 2)
        => vcall.abbrev.none

\* C9 (amended): a candidate that reaches the scan is rejected exactly when one of its
\* letters is a mismatch while the counter stands at 1, the counter being the number
\* of mismatches less the number of in-word matches among the letters before it; an
\* accepted candidate is returned in its normalised form.
C9_RejectedExactlyAtCounterOne ==
    Scanned =>
        /\ vcall.abbrev.none <=>
             \E i \in DOMAIN ScannedCandidate :
                /\ IsMismatch(ScannedCandidate, ScannedPhrase, i)
                /\ CounterBefore(ScannedCandidate, ScannedPhrase, i) = 1
        /\ ~vcall.abbrev.none => vcall.abbrev.s = ScannedCandidate

\* a candidate with an in-word match before its mismatches is rejected at its third
\* mismatch
C9_Witness ==
    /\ Scanned
    /\ vcall.abbrev.none
    /\ InWords(ScannedCandidate, ScannedPhrase) # {}
    /\ Cardinality(Mismatches(ScannedCandidate, ScannedPhrase)) >= 3

\* the letters of the candidate that find no unconsumed word-initial: the occurrences
\* of a letter beyond the number of words of the phrase that start with it
ExtraOccurrences(cand, phrase) == { i \in DOMAIN cand : ~IsInitial(cand, phrase, i) }

\* C26: in the initials scan each word-initial of the cleaned phrase matches at most
\* one candidate letter, the matched initial being removed from the pool: a candidate
\* whose letters all find an initial of their own is accepted, and an occurrence of a
\* letter beyond the number of initials with that letter is accepted only through the
\* two-letter in-word fallback or counted as a mismatch: an accepted candidate has at
\* most one more such mismatch than it has in-word matches, and two such occurrences
\* without any in-word match reject the candidate.
C26_InitialMatchesOneLetter ==
    Scanned =>
      LET cand == ScannedCandidate
          phrase == ScannedPhrase
          extra == ExtraOccurrences(cand, phrase)
      IN /\ extra = {} => ~vcall.abbrev.none
         /\ ~vcall.abbrev.none =>
               Cardinality(extra \ InWords(cand, phrase))
                 <= Cardinality(InWords(cand, phrase)) + 1
         /\ (InWords(cand, phrase) = {} /\ Cardinality(extra) >= 2) => vcall.abbrev.none

\* C26 witness: a candidate that repeats a word-initial of the phrase, whose first
\* occurrence consumes the initial and whose two further occurrences are mismatches
C26_Witness ==
    /\ Scanned
    /\ vcall.abbrev.none
    /\ LET cand == ScannedCandidate
           phrase == ScannedPhrase
       IN /\ InWords(cand, phrase) = {}
          /\ \E i, j, k \in DOMAIN cand :
                /\ i < j /\ j < k
                /\ cand[i] = cand[j] /\ cand[j] = cand[k]
                /\ IsInitial(cand, phrase, i)
                /\ Mismatches(cand, phrase) = {j, k}

\* lowercase letters and single spaces, neither at an end
LettersAndSingleSpaces(s) ==
    /\ \A i \in DOMAIN s : IsLower(s[i]) \/ s[i] = " "
    /\ \A i \in 1..(Len(s) - 1) : ~(s[i] = " " /\ s[i + 1] = " ")
    /\ s # <<>> => s[1] # " " /\ s[Len(s)] # " "

\* C27: when the original string has parenthesized content, get_abbreviations uses
\* that content as the only candidate: if removing its word-boundary occurrences from
\* the cleaned phrase leaves fewer than 3 characters, or the normalised candidate has
\* fewer than 3 characters, the result is no abbreviation; the capital run after a
\* hyphen is the candidate only when the string has no parenthesized group; every
\* abbreviation returned has at least 3 characters, lowercase letters and single spaces.
C27_GroupIsTheOnlyCandidate ==
    vcall.op = "get_abbreviations" =>
      /\ HasParen(vcall.string) =>
            LET abbrev == ParenContent(vcall.string)
            IN /\ (\/ Len(WithoutAbbrev(abbrev, vcall.cleaned_string)) < 3
                   \/ Len(NormalizeAbbrev(abbrev)) < 3) => vcall.abbrev.none
               /\ ~vcall.abbrev.none => vcall.abbrev.s = NormalizeAbbrev(abbrev)
      /\ (~HasParen(vcall.string) /\ ~vcall.abbrev.none) =>
            /\ HasHyphenCap(vcall.string)
            /\ vcall.abbrev.s = NormalizeAbbrev(HyphenCap(vcall.string))
      /\ ~vcall.abbrev.none =>
            Len(vcall.abbrev.s) >= 3 /\ LettersAndSingleSpaces(vcall.abbrev.s)

\* C27 witness: a string with a group and a capital run after a hyphen that the scan
\* would accept, whose group is rejected
C27_Witness ==
    /\ vcall.op = "get_abbreviations"
    /\ HasParen(vcall.string) /\ HasHyphenCap(vcall.string)
    /\ ~Validate(HyphenCap(vcall.string), vcall.cleaned_string).none
    /\ vcall.abbrev.none

\* position of key k in the mapping D
KeyPos(D, k) == CHOOSE i \in DOMAIN D : D[i].k = k

\* C10: after postprocess(D) no key of the returned mapping is a key of the
\* abbreviation cache, for every iteration order and also when the cached
\* abbreviation of a key is itself a cached key.
C10_NoReturnedKeyIsCached ==
    vcall.op = "postprocess" => \A k \in Keys(vcall.out) : k \notin DOMAIN vcall.pre

\* C10 (amended): a key k of the cache is a key of the returned mapping exactly when
\* k is the cached abbreviation of another key j of D and k is not a key of D or
\* comes before j in D; every other cached key of D is gone from the result.
C10_CachedKeyStaysOnlyAsLaterTarget ==
    vcall.op = "postprocess" =>
        \A k \in DOMAIN vcall.pre :
            k \in Keys(vcall.out) <=>
                \E j \in Keys(vcall.D) \cap DOMAIN vcall.pre :
                    /\ j # k
                    /\ vcall.pre[j] = k
                    /\ k \in Keys(vcall.D) => KeyPos(vcall.D, k) < KeyPos(vcall.D, j)

\* two cached keys of D, one the cached abbreviation of the other and first in D: the
\* first is merged away and comes back as the target of the second
C10_Witness ==
    /\ vcall.op = "postprocess"
    /\ \E j, k \in Keys(vcall.D) \cap DOMAIN vcall.pre :
          /\ j # k
          /\ vcall.pre[j] = k
          /\ KeyPos(vcall.D, k) < KeyPos(vcall.D, j)
          /\ j \notin Keys(vcall.out)
          /\ k \in Keys(vcall.out)
          /\ ValueOf(vcall.out, k) = ValueOf(vcall.D, j)

-----------------------------------------------------------------------------
(* Properties of postprocess *)

AfterPost == vcall.op = "postprocess"

\* the weight of neighbour n in the inner mapping v, 0 when absent
WeightIn(v, n) == IF n \in DOMAIN v THEN v[n] ELSE 0

\* the weight of n under key k of D, 0 when k is not a key of D
WeightOf(D, k, n) == IF k \in Keys(D) THEN WeightIn(ValueOf(D, k), n) ELSE 0

RECURSIVE SumOver(_, _)
SumOver(S, f) ==
    IF S = {} THEN 0 ELSE LET x == CHOOSE x \in S : TRUE IN f[x] + SumOver(S \ {x}, f)

\* the keys of D whose cached abbreviation is k
MappedTo(cache, D, k) == { j \in Keys(D) \cap DOMAIN cache : cache[j] = k }

Neighbours(D) == UNION { DOMAIN D[i].v : i \in DOMAIN D }

\* what key j of D holds for n when its turn comes: its own weight and what the keys
\* before it in D, whose cached abbreviation it is, held in their turn
RECURSIVE HeldInTurn(_, _, _, _)
HeldInTurn(cache, D, j, n) ==
    LET E == { i \in MappedTo(cache, D, j) : i # j /\ KeyPos(D, i) < KeyPos(D, j) }
    IN WeightOf(D, j, n) + SumOver(E, [i \in E |-> HeldInTurn(cache, D, i, n)])

\* C11: for every key k of the returned mapping that is not a cache key and every
\* neighbour n, the returned weight of n under k is D[k][n] (0 when absent) plus the
\* sum of D[j][n] over the keys j of D whose cached abbreviation is k.
C11_MergedWeightIsDirectSum ==
    AfterPost =>
      \A k \in Keys(vcall.out) \ DOMAIN vcall.pre :
        \A n \in Neighbours(vcall.D) \cup DOMAIN ValueOf(vcall.out, k) :
          LET J == MappedTo(vcall.pre, vcall.D, k)
          IN WeightIn(ValueOf(vcall.out, k), n)
               = WeightOf(vcall.D, k, n) + SumOver(J, [j \in J |-> WeightOf(vcall.D, j, n)])

\* C11 (amended): the returned weight of n under such a key k is D[k][n] (0 when
\* absent) plus, for every key j of D whose cached abbreviation is k, the weight j
\* holds for n when its turn comes: D[j][n] and what the keys that precede j in D and
\* have j as their cached abbreviation held in their turn.
C11_MergedWeightIsSumHeldInTurn ==
    AfterPost =>
      \A k \in Keys(vcall.out) \ DOMAIN vcall.pre :
        \A n \in Neighbours(vcall.D) \cup DOMAIN ValueOf(vcall.out, k) :
          LET J == MappedTo(vcall.pre, vcall.D, k)
          IN WeightIn(ValueOf(vcall.out, k), n)
               = WeightOf(vcall.D, k, n)
                   + SumOver(J, [j \in J |-> HeldInTurn(vcall.pre, vcall.D, j, n)])

\* a key that is not cached receives, on a neighbour it already has, the weight of a
\* cached key of D that has itself received the weight of an earlier cached key
C11_Witness ==
    /\ AfterPost
    /\ \E k \in Keys(vcall.out) \ DOMAIN vcall.pre :
         \E j \in MappedTo(vcall.pre, vcall.D, k) :
           \E i \in MappedTo(vcall.pre, vcall.D, j) :
             \E n \in Neighbours(vcall.D) :
               /\ i # j
               /\ KeyPos(vcall.D, i) < KeyPos(vcall.D, j)
               /\ WeightOf(vcall.D, k, n) > 0
               /\ WeightOf(vcall.D, j, n) > 0
               /\ WeightOf(vcall.D, i, n) > 0
               /\ WeightIn(ValueOf(vcall.out, k), n)
                    = WeightOf(vcall.D, k, n) + WeightOf(vcall.D, j, n) + WeightOf(vcall.D, i, n)

\* the weight of n summed over all keys of D
TotalWeight(D, n) == SumOver(Keys(D), [k \in Keys(D) |-> WeightOf(D, k, n)])

\* C30: postprocess conserves weight: for every neighbour n the weight of n summed
\* over the keys of the returned mapping equals the weight of n summed over the keys
\* of the input mapping, for every cache content, a cache that maps a key of the
\* mapping to itself included.
C30_PostprocessConservesWeight ==
    AfterPost =>
      \A n \in Neighbours(vcall.D) \cup Neighbours(vcall.out) :
        TotalWeight(vcall.out, n) = TotalWeight(vcall.D, n)

-----------------------------------------------------------------------------
(* Properties of the abbreviation cache *)

\* C12: across any sequence of preprocess, preprocess_venue and postprocess calls the
\* abbreviation cache only grows: no step removes an entry or changes the
\* abbreviation an entry maps to.
C12_CacheOnlyGrows ==
    [][\A k \in DOMAIN abbreviation_dict :
          k \in DOMAIN abbreviation_dict' /\ abbreviation_dict'[k] = abbreviation_dict[k]]_vars

\* a call has inserted an entry into a cache that held two already, and all three
\* are there
C12_Witness ==
    /\ vcall.op \in {"preprocess", "preprocess_venue"}
    /\ Cardinality(DOMAIN vcall.pre) >= 2
    /\ DOMAIN abbreviation_dict # DOMAIN vcall.pre
    /\ \A k \in DOMAIN vcall.pre : k \in DOMAIN abbreviation_dict

\* the last call was preprocess(string, get_abbrv=True) and the cleaned phrase of
\* string was in the cache
CacheHit ==
    /\ vcall.op = "preprocess"
    /\ vcall.get_abbrv
    /\ vcall.cleaned_string \in DOMAIN vcall.pre

\* the cleaned phrases of the strings handed to preprocess, and the abbreviations
\* the calls can cache
CleanedPhrases == { Clean(s) : s \in Strings }

Abbreviations == { <<"c", "a", "i">>, <<"u", "a", "i">>, <<"x", "y", "z">> }

\* the last call was preprocess(string, get_abbrv=True) with cleaned phrase p
LookedUp(p) == vcall.op = "preprocess" /\ vcall.get_abbrv /\ vcall.cleaned_string = p

\* C13: preprocess with get_abbrv=true returns (cached abbreviation, true) whenever
\* the cleaned phrase is in the cache, and leaves the cache as it is; once a phrase p
\* is cached with abbreviation a, every later call whose cleaned phrase is p returns
\* (a, true), whatever candidate its string carries.
C13_CachedAbbreviationWins ==
    /\ [](CacheHit =>
            /\ vcall.ret = Pair(Str(vcall.pre[vcall.cleaned_string]), TRUE)
            /\ abbreviation_dict = vcall.pre)
    /\ \A p \in CleanedPhrases : \A a \in Abbreviations :
          []((p \in DOMAIN abbreviation_dict /\ abbreviation_dict[p] = a)
                => [](LookedUp(p) => vcall.ret = Pair(Str(a), TRUE)))

\* "uai" is never in the pickled mapping: an earlier call extracted and cached it, and
\* the last call, on a string without any candidate, got it back
C13_Witness ==
    /\ CacheHit
    /\ ~HasParen(vcall.string) /\ ~HasHyphenCap(vcall.string)
    /\ vcall.pre[vcall.cleaned_string] = <<"u", "a", "i">>
    /\ vcall.ret = Pair(Str(<<"u", "a", "i">>), TRUE)

\* the last call was preprocess and its cleaned phrase got as far as line 172
PhraseKept == Len(vcall.cleaned_string) >= 3 /\ vcall.cleaned_string \notin DaysAbbrev

\* C28: a cache miss never raises: when the cleaned phrase is not in the cache and the
\* extraction finds no valid abbreviation, preprocess returns (cleaned phrase, false)
\* and leaves the cache unchanged; an entry is inserted only when the extraction
\* succeeds, and preprocess with get_abbrv=false never inserts.
C28_MissWithoutAbbreviationIsNoError ==
    vcall.op = "preprocess" =>
      LET cleaned_string == vcall.cleaned_string
          abbrev == get_abbreviations(vcall.string, cleaned_string)
      IN /\ (/\ PhraseKept /\ vcall.get_abbrv
             /\ cleaned_string \notin DOMAIN vcall.pre
             /\ abbrev.none)
              => /\ vcall.ret = Pair(Str(cleaned_string), FALSE)
                 /\ abbreviation_dict = vcall.pre
         /\ abbreviation_dict # vcall.pre
              => /\ PhraseKept /\ vcall.get_abbrv
                 /\ cleaned_string \notin DOMAIN vcall.pre
                 /\ ~abbrev.none
                 /\ abbreviation_dict = (cleaned_string :> abbrev.s) @@ vcall.pre
                 /\ vcall.ret = Pair(abbrev, TRUE)
         /\ ~vcall.get_abbrv => abbreviation_dict = vcall.pre

\* C28 witness: a string whose candidate is rejected, its phrase not in the cache
\* that an earlier call has filled
C28_Witness ==
    /\ vcall.op = "preprocess" /\ vcall.get_abbrv /\ PhraseKept
    /\ HasParen(vcall.string)
    /\ vcall.pre # <<>>
    /\ vcall.cleaned_string \notin DOMAIN vcall.pre
    /\ vcall.ret = Pair(Str(vcall.cleaned_string), FALSE)
    /\ abbreviation_dict = vcall.pre

-----------------------------------------------------------------------------
(* Properties of the role tags *)

\* node k exists and carries the role tag
Tagged(nd, k, role) == k \in NodeIds(nd) /\ role \in NodeAttrs(nd, k)

\* C14: after add_entities every non-empty source key of the relation map is tagged
\* from_role and every non-empty target key of any inner mapping is tagged to_role,
\* whether or not an edge was created for it (target below cutoff, zero count, inner
\* mapping of an empty source key).
C14_SourcesAndTargetsAreTagged ==
    AfterAdd =>
      \A i \in DOMAIN last.args.rm :
        LET e == last.args.rm[i]
        IN /\ e.k # "" => Tagged(node, e.k, last.args.from)
           /\ \A j \in DOMAIN e.v : e.v[j].t # "" => Tagged(node, e.v[j].t, last.args.to)

\* a target named only in the inner mapping of the empty source key, with a count
\* below the cutoff: it is tagged and no edge leads to it
C14_Witness ==
    /\ AfterAdd
    /\ \E i \in DOMAIN last.args.rm :
         LET e == last.args.rm[i]
         IN /\ e.k = ""
            /\ Len(last.args.rm) = 1
            /\ \E j \in DOMAIN e.v :
                 /\ e.v[j].t # ""
                 /\ e.v[j].c < last.args.cutoff
                 /\ e.v[j].t \notin NodeIds(last.pre.node)
                 /\ Tagged(node, e.v[j].t, last.args.to)
                 /\ \A n \in DOMAIN adj : adj[n].v # e.v[j].t

\* C15: across any sequence of add_entities and infer_layer calls a role tag once set
\* stays set: no call removes a node or one of its role tags, and an add_entities that
\* names a node under another role adds that role to the ones it has.
C15_RoleTagsAreNeverRemoved ==
    [][last'.op \in {"add_entities", "infer_layer"} =>
         \A i \in DOMAIN node :
            /\ node[i].id \in NodeIds(node')
            /\ node[i].attrs \subseteq NodeAttrs(node', node[i].id)]_vars

\* a node named as a source under A and later as a target under B carries both tags,
\* also after an infer_layer call
C15_Witness ==
    /\ last.op = "infer_layer" /\ last.err = "none"
    /\ \E i \in DOMAIN node : {"A", "B"} \subseteq node[i].attrs
    /\ NewAdj # <<>>

-----------------------------------------------------------------------------
(* Properties of the edge set *)

\* only add_entities calls have been made so far
OnlyPopulated == ops <= 2 /\ last.op = "add_entities" /\ last.prev.op \in {"init", "add_entities"}

\* C16: after a sequence of add_entities calls there is, for every source, target and
\* relation type, at most one edge source->target that carries a weight for that
\* relation type, also when add_entities was called again for the same triple.
C16_OneEdgePerRelationType ==
    OnlyPopulated =>
      \A i, j \in DOMAIN adj :
        (/\ adj[i].u = adj[j].u
         /\ adj[i].v = adj[j].v
         /\ DOMAIN adj[i].attrs \cap DOMAIN adj[j].attrs # {}) => i = j

-----------------------------------------------------------------------------
(* Properties of the skip test of infer_layer *)

\* every edge of s leaving a with a present R2 weight leads to a node not tagged C
ResolvedOnlyOutsideC(s, c, a) ==
    \A i \in DOMAIN s.adj :
       (s.adj[i].u = a /\ c.relationship_chain[2] \in DOMAIN s.adj[i].attrs)
          => c.entity_chain[3] \notin NodeAttrs(s.node, s.adj[i].v)

\* C19: with overwrite=false, infer_layer skips an A-node only if one of its outgoing
\* edges with a present R2 weight leads to a node tagged C; an A-node whose R2-weighted
\* outgoing edges all lead to nodes not tagged C is processed like an unresolved node
\* and receives its inferred edges when it has qualifying B-neighbours.
C19_SkippedOnlyWhenResolvedInC ==
    (AfterInfer /\ last.err = "none" /\ ~last.args.overwrite /\ last.args.max_links > 0) =>
      \A n \in DOMAIN last.pre.node :
        LET a == last.pre.node[n].id
        IN (/\ last.args.entity_chain[1] \in last.pre.node[n].attrs
            /\ ResolvedOnlyOutsideC(last.pre, last.args, a)
            /\ Discovery(last.pre, last.args, a) # <<>>)
           => NewFrom(a) # <<>>

-----------------------------------------------------------------------------
(* Properties of the two phases of infer_layer *)

\* the graph before the call with its nodes in the opposite creation order
PreReversed ==
    [last.pre EXCEPT !.node = [i \in DOMAIN last.pre.node |->
                                  last.pre.node[Len(last.pre.node) + 1 - i]]]

\* infer_layer applied to s with the arguments of the last call
InferAgain(s) ==
    infer_layer(s, last.args.entity_chain, last.args.relationship_chain, last.args.overwrite,
                last.args.max_links, last.args.filters, last.args.new_relationship)

\* C20: within one infer_layer call the candidate sets of all A-nodes are computed
\* from the graph as it was when the call started and no edge is added before all of
\* them are computed: the skip decision, the targets and the scores of every A-node
\* are those of the graph before the call, a call that fails leaves no edge behind,
\* and the resulting graph is the same for the opposite processing order of the
\* A-nodes and for a repeated run from the same graph.
C20_CandidatesFromGraphAtCallStart ==
    AfterInfer =>
      /\ last.err # "none" => adj = last.pre.adj
      /\ last.err = "none" =>
           /\ \A n \in DOMAIN last.pre.node :
                 LET a == last.pre.node[n].id
                     disc == Discovery(last.pre, last.args, a)
                 IN /\ ~Processed(last.pre, last.args, a) => NewFrom(a) = <<>>
                    /\ Processed(last.pre, last.args, a) =>
                          /\ Len(NewFrom(a)) = Min(last.args.max_links, Len(disc))
                          /\ NewTargets(a) \subseteq Range(disc)
                          /\ \A t \in NewTargets(a) :
                                GetAttr(Edge0(a, t).attrs, WrittenRel)
                                  = PathScore(last.pre, last.args, a, t)
           /\ SameGraph(Snap, InferAgain(last.pre))
           /\ LET h == InferAgain(PreReversed)
              IN h.err = "none" /\ SameGraph(Snap, [h EXCEPT !.node = node])

\* C20 witness: two A-nodes are processed in one call, the one created first is a
\* B-neighbour of the other and receives an inferred edge in this call
C20_Witness ==
    /\ AfterInfer /\ last.err = "none"
    /\ \E i, j \in DOMAIN last.pre.node :
         LET x == last.pre.node[i].id
             y == last.pre.node[j].id
         IN /\ i < j
            /\ Processed(last.pre, last.args, x)
            /\ Processed(last.pre, last.args, y)
            /\ last.args.entity_chain[2] \in last.pre.node[i].attrs
            /\ \E e \in DOMAIN last.pre.adj :
                  /\ last.pre.adj[e].u = y /\ last.pre.adj[e].v = x
                  /\ last.args.relationship_chain[1] \in DOMAIN last.pre.adj[e].attrs
            /\ NewFrom(x) # <<>>
            /\ NewFrom(y) = <<>>

\* no node of the graph carries both the first and the second role of the chain
NoNodeInBothRoles ==
    \A i \in DOMAIN node :
       ~(last.args.entity_chain[1] \in node[i].attrs /\ last.args.entity_chain[2] \in node[i].attrs)

\* C29: infer_layer with overwrite=false and new_relationship="default" is idempotent
\* when no node carries both role A and role B: called a second time with the same
\* arguments right after the first, it leaves the graph (nodes, tags, edges,
\* attributes) exactly as the first call left it.
C29_InferLayerIsIdempotent ==
    (/\ AfterInfer
     /\ ~last.args.overwrite
     /\ last.args.new_relationship = "default"
     /\ NoNodeInBothRoles)
       => LET h == InferAgain(Snap)
          IN h.node = node /\ h.adj = adj

\* C29 witness: a first call that added two inferred edges
C29_Witness ==
    /\ AfterInfer /\ last.err = "none"
    /\ ~last.args.overwrite
    /\ last.args.new_relationship = "default"
    /\ NoNodeInBothRoles
    /\ Len(NewAdj) >= 2

-----------------------------------------------------------------------------
(* Properties of construction *)

\* the first call on a store that was constructed without a document
FirstCallWithoutDocument ==
    /\ last.prev.op = "init"
    /\ last.op \in {"add_entities", "infer_layer", "save"}
    /\ ~last.pre.inited

\* C18: a store constructed without a document is a usable empty store: it has no
\* nodes and no edges, and add_entities, infer_layer and save called on it next
\* succeed.
C18_StoreWithoutDocumentIsUsable ==
    /\ (last.op = "init" /\ ~inited) => (node = <<>> /\ adj = <<>>)
    /\ FirstCallWithoutDocument =>
         (last.pre.node = <<>> /\ last.pre.adj = <<>> /\ last.err \in {"none", "ZeroDivisionError"})

-----------------------------------------------------------------------------
(* Properties of the role tests of infer_layer *)

\* a has no outgoing R1 edge to a B-tagged node with weight >= filters[0] in s
NoQualifyingNeighbour(s, c, a) ==
    EdgesVia(s, a, c.relationship_chain[1], c.entity_chain[2], c.filters[1]) = {}

\* C21: infer_layer completes without error on every graph built by add_entities
\* calls: an R1 neighbour that does not carry role tag B and an R2 target that does
\* not carry role tag C are left out of the computation instead of causing a failure,
\* and an A-node left with no qualifying R1 neighbour gets no new edge.
C21_UntaggedNeighboursAreLeftOut ==
    AfterInfer =>
      /\ last.err = "none"
      /\ \A n \in DOMAIN last.pre.node :
           NoQualifyingNeighbour(last.pre, last.args, last.pre.node[n].id)
              => NewFrom(last.pre.node[n].id) = <<>>

-----------------------------------------------------------------------------
(* Properties of the edges infer_layer writes *)

\* C22: every inferred link is stored on the edge infer_layer adds for it: the edge
\* newly added for a->c carries the attribute new_relationship (R2's name for
\* "default") with the accumulated score, and no edge that existed before the call has
\* an attribute added or changed, also when a already had an edge to c.
C22_ScoreIsOnTheAddedEdge ==
    (AfterInfer /\ last.err = "none") =>
      /\ \A n \in DOMAIN NewAdj :
           GetAttr(NewAdj[n].attrs, WrittenRel)
             = PathScore(last.pre, last.args, NewAdj[n].u, NewAdj[n].v)
      /\ \A i \in DOMAIN last.pre.adj : adj[i] = last.pre.adj[i]

-----------------------------------------------------------------------------
(* Properties of the weights *)

\* C23: within one add_entities call the weights of the edges created from one source
\* sum to exactly 1 over the targets that pass the inclusion cutoff, for every cutoff
\* and every relation map with non-negative counts (an empty target key and targets
\* left out by the cutoff included).
C23_CreatedWeightsSumToOne ==
    AfterAdd =>
      \A i \in DOMAIN last.args.rm :
        LET e == last.args.rm[i]
            es == NewFrom(e.k)
        IN (e.k # "" /\ es # <<>>) =>
             FSumSeq([n \in DOMAIN es |-> GetAttr(es[n].attrs, last.args.rel)]) = FOne

\* C24: after any sequence of add_entities calls with non-negative counts and
\* infer_layer calls, every edge weight in the graph lies in [0,1]; in particular no
\* accumulated score written by infer_layer exceeds 1.
C24_WeightsWithinUnitInterval ==
    \A i \in DOMAIN adj :
      \A r \in DOMAIN adj[i].attrs :
        FGe(adj[i].attrs[r], FZero) /\ FGe(FOne, adj[i].attrs[r])

====
